---------------------------- MODULE Spec2Model ----------------------------
(***************************************************************************)
(* presence-for-plex: the live playback monitor (src/src/plex_server.rs),  *)
(* the metadata enrichment cache (src/src/metadata.rs) and the monitoring  *)
(* supervisor (src/src/main.rs).                                           *)
(*                                                                         *)
(* Time is wall-clock milliseconds (Instant).  Option<T> is a sequence:    *)
(* <<>> is None and <<v>> is Some(v).                                      *)
(***************************************************************************)
EXTENDS Integers, Sequences, FiniteSets, TLC

VARIABLES
    now,                \* the monotonic clock, ms
    username,           \* PlexServer.username
    connections,        \* PlexServer.connections (their uris)
    pc,                 \* where start_monitoring / try_connection stands
    connIdx,            \* index of `conn` in the for loop of start_monitoring
    connection_opened,  \* try_connection's local flag
    tracker,            \* try_connection's local PlaybackTracker
    cur,                \* the message handle_sse_message is working on
    wakeAt,             \* deadline of the backoff sleep
    tx,                 \* the kinds of the MediaUpdates sent on the channel, in order
    ticks,              \* how often the clock has advanced
    cache,              \* MetadataEnricher.cache
    handled,            \* number of SSE messages taken from the stream
    fetches,            \* number of GET /status/sessions requests made
    lastSent,           \* the last MediaUpdate sent on the channel, in full
    prevEv,             \* identity and phase of the event handled just before,
                        \* when its handling left a record in the tracker
    lastEnrich,         \* what the last direct call of enrich did
    sse_cancel_token,   \* main: the token now held in the shared mutex
    cancelled,          \* main: the sse tokens cancelled so far
    app_cancel_token,   \* main: whether the application token is cancelled
    loops,              \* main: the run_sse_loop tasks spawned so far
    media_rx,           \* main: the MediaInfo channel, what is sent and not yet received
    received,           \* main: what handle_media_updates has taken, in order
    media_sent,         \* main: how many messages were sent on the channel
    causes,             \* for each MediaUpdate sent, the number of the SSE message
                        \* in whose handling it was sent
    servers,            \* PlexClient: the servers get_servers has returned
    client,             \* PlexClient: where start_sse_monitoring stands
    tasks,              \* the monitors that share one MetadataEnricher: where each
                        \* stands between its lock requests
    cache_lock,         \* MetadataEnricher.cache: the RwLock itself
    discord             \* DiscordClient: the connected flag, and the calls made
                        \* on its DiscordIpcClient

monitorVars == <<username, connections, pc, connIdx, connection_opened, tracker,
                 cur, wakeAt, tx, handled, fetches, lastSent, prevEv, causes>>

channelVars == <<media_rx, received, media_sent>>

supervisorVars == <<sse_cancel_token, cancelled, app_cancel_token, loops,
                    channelVars>>

clientVars == <<servers, client>>

lockVars == <<tasks, cache_lock>>

vars == <<now, ticks, cache, monitorVars, lastEnrich, supervisorVars, clientVars,
          lockVars, discord>>

-----------------------------------------------------------------------------
(* Program constants *)

SSE_RECONNECT_DELAY_SECS == 5
SEEK_THRESHOLD_MS == 30000
CACHE_TTL_SECS == 3600
CACHE_CLEANUP_THRESHOLD == 100

(* Bounds of the model *)

MaxMsgs == 2            \* SSE messages delivered in one run
MaxTicks == 1           \* clock advances in one run
Delays == {2000, 40000} \* how much time may pass in one advance (ms)

-----------------------------------------------------------------------------
(* Option<T> *)

None == <<>>
Some(v) == <<v>>
IsSome(o) == o # <<>>
Unwrap(o) == o[1]
UnwrapOr(o, d) == IF o = <<>> THEN d ELSE o[1]

AbsDiff(a, b) == IF a >= b THEN a - b ELSE b - a


-----------------------------------------------------------------------------
(* PlaybackTracker (plex_server.rs) *)

PlaybackTracker_new ==
    [cached_info |-> None, source_server |-> None, last_update |-> None]

has_media_mut_always(t) == TRUE

has_media(t) == IsSome(t.cached_info)

is_same_media_mut_empty_matches(t, rating_key) ==
    IsSome(t.cached_info) => Unwrap(t.cached_info).rating_key = Some(rating_key)

\* the stored rating_key is itself an Option; Some(rating_key) is compared
is_same_media(t, rating_key) ==
    /\ IsSome(t.cached_info)
    /\ Unwrap(t.cached_info).rating_key = Some(rating_key)

\* last_update.elapsed() read at time `at`
elapsed_ms(t, at) == at - Unwrap(t.last_update)

\* u64::saturating_add; the saturation point lies far outside the model
saturating_add(a, b) == a + b

expected_offset(t, at) ==
    saturating_add(Unwrap(t.cached_info).view_offset_ms, elapsed_ms(t, at))

is_duplicate_mut_never(t, state, view_offset, at) == FALSE

is_duplicate(t, state, view_offset, at) ==
    IF ~(IsSome(t.cached_info) /\ IsSome(t.last_update)) THEN FALSE
    ELSE IF Unwrap(t.cached_info).state # state THEN FALSE
    ELSE AbsDiff(expected_offset(t, at), view_offset) <= SEEK_THRESHOLD_MS

update_playback_mut_keep_offset(t, state, view_offset, at) ==
    IF IsSome(t.cached_info)
    THEN [t EXCEPT !.cached_info =
                       Some([Unwrap(t.cached_info) EXCEPT !.state = state]),
                   !.last_update = Some(at)]
    ELSE t

update_playback_mut_clear_artwork(t, state, view_offset, at) ==
    IF IsSome(t.cached_info)
    THEN [t EXCEPT !.cached_info =
                       Some([Unwrap(t.cached_info) EXCEPT
                                 !.state = state,
                                 !.view_offset_ms = view_offset,
                                 !.art_url = None]),
                   !.last_update = Some(at)]
    ELSE t

update_playback(t, state, view_offset, at) ==
    IF IsSome(t.cached_info)
    THEN [t EXCEPT !.cached_info =
                       Some([Unwrap(t.cached_info) EXCEPT
                                 !.state = state,
                                 !.view_offset_ms = view_offset]),
                   !.last_update = Some(at)]
    ELSE t

set_media_mut_no_source(t, info, server_uri, at) ==
    [cached_info |-> Some(info),
     source_server |-> t.source_server,
     last_update |-> Some(at)]

set_media(t, info, server_uri, at) ==
    [cached_info |-> Some(info),
     source_server |-> Some(server_uri),
     last_update |-> Some(at)]

get_info(t) == t.cached_info

clear_if_from_server_mut_any_source(t, server_uri) ==
    <<PlaybackTracker_new, TRUE>>

\* returns the pair <<tracker after, result>>
clear_if_from_server(t, server_uri) ==
    IF t.source_server = Some(server_uri)
    THEN <<PlaybackTracker_new, TRUE>>
    ELSE <<t, FALSE>>

clear_mut_keep_info(t) ==
    [t EXCEPT !.source_server = None, !.last_update = None]

clear(t) == PlaybackTracker_new

-----------------------------------------------------------------------------
(* MediaUpdate *)

Playing(info) == [type |-> "Playing", info |-> Some(info)]
Stopped == [type |-> "Stopped", info |-> None]

-----------------------------------------------------------------------------
(* What the media server answers: /status/sessions and item metadata *)

Owner == "alice"

Guid(scheme, id) == [scheme |-> scheme, id |-> id]

\* SessionMetadata of a movie with ratingKey A
MovieA(user, player, view_offset) ==
    [title |-> "Matrix", media_type |-> "movie", duration |-> Some(60000),
     view_offset |-> view_offset, year |-> Some(1999),
     grandparent_title |-> None, parent_index |-> None, index |-> None,
     parent_title |-> None, genre |-> <<"Action">>, player |-> player,
     user |-> user, guids |-> <<>>, rating_key |-> Some("A"),
     grandparent_key |-> None, key |-> Some("/library/metadata/A")]

\* SessionMetadata of an episode with ratingKey B
EpisodeB(user, player, view_offset) ==
    [title |-> "Pilot", media_type |-> "episode", duration |-> Some(50000),
     view_offset |-> view_offset, year |-> Some(1998),
     grandparent_title |-> Some("Bebop"), parent_index |-> Some(1),
     index |-> Some(1), parent_title |-> Some("Season 1"), genre |-> <<>>,
     player |-> player, user |-> user, guids |-> <<>>,
     rating_key |-> Some("B"), grandparent_key |-> Some("/library/metadata/S"),
     key |-> Some("/library/metadata/B")]

\* the bodies /status/sessions may carry (MediaContainer.Metadata)
SessionLists ==
    { <<>>,
      <<MovieA(Some(Owner), Some("playing"), Some(1000))>>,
      <<MovieA(Some(Owner), Some("paused"), Some(1000))>>,
      <<EpisodeB(Some(Owner), Some("playing"), Some(1000))>>,
      <<MovieA(Some("bob"), Some("playing"), Some(1000)),
        EpisodeB(Some(Owner), Some("playing"), Some(40000))>>,
      <<EpisodeB(Some(Owner), Some("playing"), Some(1000)),
        MovieA(Some(Owner), Some("playing"), Some(1000))>>,
      <<MovieA(Some("bob"), Some("playing"), Some(1000))>>,
      <<MovieA(Some(Owner), None, None)>>,
      <<[MovieA(Some(Owner), Some("playing"), Some(1000))
            EXCEPT !.media_type = "clip"]>>,
      <<MovieA(None, Some("playing"), Some(1000))>> }

\* how GET /status/sessions may end
SessionResponses ==
    { [kind |-> "error", status |-> 0, sessions |-> <<>>],      \* send() failed
      [kind |-> "status", status |-> 403, sessions |-> <<>>],   \* forbidden
      [kind |-> "status", status |-> 500, sessions |-> <<>>],
      [kind |-> "badjson", status |-> 200, sessions |-> <<>>] }
    \cup { [kind |-> "ok", status |-> 200, sessions |-> l] : l \in SessionLists }

\* how GET {server_uri}{key} may end: None, or the first ItemMetadata
ItemResponses ==
    { None,
      Some([guids |-> <<Guid("imdb", "tt0133093"), Guid("tmdb", "603")>>,
            genres |-> <<"Animation">>]) }

-----------------------------------------------------------------------------
(* PlexServer::parse_session, extract_external_ids, enrich_external_ids,   *)
(* fetch_session                                                           *)

RECURSIVE ScanGuids(_, _, _)
\* the loop over guids: a later imdb:// or tmdb:// guid overwrites an earlier
ScanGuids(guids, imdb_id, tmdb_id) ==
    IF guids = <<>> THEN <<imdb_id, tmdb_id>>
    ELSE LET g == Head(guids) IN
         IF g.scheme = "imdb" THEN ScanGuids(Tail(guids), Some(g.id), tmdb_id)
         ELSE IF g.scheme = "tmdb" THEN ScanGuids(Tail(guids), imdb_id, Some(g.id))
         ELSE ScanGuids(Tail(guids), imdb_id, tmdb_id)

extract_external_ids(guids) == ScanGuids(guids, None, None)

PlayerState(player) ==
    IF player = Some("playing") THEN "Playing"
    ELSE IF player = Some("paused") THEN "Paused"
    ELSE IF player = Some("buffering") THEN "Buffering"
    ELSE "Stopped"

MediaTypeOf(s) ==
    IF s = "movie" THEN Some("Movie")
    ELSE IF s = "episode" THEN Some("Episode")
    ELSE IF s = "track" THEN Some("Track")
    ELSE None

\* Option<MediaInfo>
parse_session(meta) ==
    IF MediaTypeOf(meta.media_type) = None THEN None
    ELSE LET ids == extract_external_ids(meta.guids) IN
         Some([title |-> meta.title,
               media_type |-> Unwrap(MediaTypeOf(meta.media_type)),
               show_name |-> meta.grandparent_title,
               season |-> meta.parent_index,
               episode |-> meta.index,
               artist |-> meta.grandparent_title,
               album |-> meta.parent_title,
               year |-> meta.year,
               genres |-> meta.genre,
               duration_ms |-> UnwrapOr(meta.duration, 0),
               view_offset_ms |-> UnwrapOr(meta.view_offset, 0),
               state |-> PlayerState(meta.player),
               imdb_id |-> ids[1],
               tmdb_id |-> ids[2],
               mal_id |-> None,
               art_url |-> None,
               rating_key |-> meta.rating_key,
               grandparent_key |-> meta.grandparent_key,
               key |-> meta.key])

get_metadata_key(info) ==
    IF info.media_type = "Episode" THEN info.grandparent_key
    ELSE IF info.media_type = "Movie" THEN info.key
    ELSE None

\* item is how the item-metadata request ended (asked only with a key)
enrich_external_ids(info, item) ==
    IF get_metadata_key(info) = None THEN info
    ELSE IF item = None THEN info
    ELSE LET ids == ScanGuids(Unwrap(item).guids, info.imdb_id, info.tmdb_id)
             withIds == [info EXCEPT !.imdb_id = ids[1], !.tmdb_id = ids[2]]
         IN IF info.media_type = "Episode"
            THEN [withIds EXCEPT !.genres = Unwrap(item).genres]
            ELSE withIds

\* the closure handed to find(): does this session belong to the owner
UserMatches(target, meta) ==
    IF IsSome(target) /\ IsSome(meta.user) THEN Unwrap(meta.user) = Unwrap(target)
    ELSE IF IsSome(target) THEN FALSE
    ELSE TRUE

Find_mut_first_session(target, sessions) ==
    IF sessions = <<>> THEN None ELSE Some(Head(sessions))

RECURSIVE Find(_, _)
Find(target, sessions) ==
    IF sessions = <<>> THEN None
    ELSE IF UserMatches(target, Head(sessions)) THEN Some(Head(sessions))
    ELSE Find(target, Tail(sessions))

\* Option<MediaInfo>; resp is how the session request ended, item how the
\* item-metadata request ended
fetch_session(target, resp, item) ==
    IF resp.kind = "error" THEN None
    ELSE IF ~(resp.status >= 200 /\ resp.status <= 299) THEN None
    ELSE IF resp.kind = "badjson" THEN None
    ELSE LET meta == Find(target, resp.sessions) IN
         IF meta = None THEN None
         ELSE LET info == parse_session(Unwrap(meta)) IN
              IF info = None THEN None
              ELSE Some(enrich_external_ids(Unwrap(info), item))

-----------------------------------------------------------------------------
(* MetadataEnricher (metadata.rs): the lookup services *)

TMDB_IMAGE_BASE == "https://image.tmdb.org/t/p/w500"
COVERART_API == "https://coverartarchive.org"

CachedArtwork(art_url, mal_id) == [art_url |-> art_url, mal_id |-> mal_id]

\* how GET {TMDB_API}/{movie|tv}/{id}/images may end
TmdbResponses ==
    { [kind |-> "error", posters |-> <<>>, backdrops |-> <<>>],
      [kind |-> "badjson", posters |-> <<>>, backdrops |-> <<>>],
      [kind |-> "ok", posters |-> <<>>, backdrops |-> <<>>],
      [kind |-> "ok", posters |-> <<"/poster.jpg">>, backdrops |-> <<"/back.jpg">>],
      [kind |-> "ok", posters |-> <<>>, backdrops |-> <<"/back.jpg">>] }

\* how GET {JIKAN_API}?q=... may end; data holds <<mal_id, large_image_url>>
JikanResponses ==
    { [kind |-> "error", data |-> <<>>],
      [kind |-> "badjson", data |-> <<>>],
      [kind |-> "ok", data |-> <<>>],
      [kind |-> "ok", data |-> <<[mal_id |-> 1, large_image_url |-> None]>>],
      [kind |-> "ok", data |-> <<[mal_id |-> 1,
                                  large_image_url |-> Some("https://cdn.mal/1l.jpg")]>>] }

\* how the release search and the HEAD on the cover may end
MusicBrainzResponses ==
    { [kind |-> "error", releases |-> <<>>, cover |-> 0],
      [kind |-> "badjson", releases |-> <<>>, cover |-> 0],
      [kind |-> "ok", releases |-> <<>>, cover |-> 0],
      [kind |-> "ok", releases |-> <<"mbid1">>, cover |-> 0],     \* HEAD failed
      [kind |-> "ok", releases |-> <<"mbid1">>, cover |-> 404],
      [kind |-> "ok", releases |-> <<"mbid1">>, cover |-> 307],
      [kind |-> "ok", releases |-> <<"mbid1">>, cover |-> 200] }

\* the pair <<Option<String>, requests made>>
fetch_tmdb_artwork(tmdb_id, media_type, resp) ==
    IF media_type = "Track" THEN <<None, <<>>>>
    ELSE IF resp.kind # "ok" THEN <<None, <<"tmdb">>>>
    ELSE IF resp.posters # <<>>
         THEN <<Some(TMDB_IMAGE_BASE \o Head(resp.posters)), <<"tmdb">>>>
    ELSE IF resp.backdrops # <<>>
         THEN <<Some(TMDB_IMAGE_BASE \o Head(resp.backdrops)), <<"tmdb">>>>
    ELSE <<None, <<"tmdb">>>>

\* the pair <<Option<CachedArtwork>, requests made>>
fetch_jikan_artwork(title, year, resp) ==
    IF resp.kind # "ok" THEN <<None, <<"jikan">>>>
    ELSE IF resp.data = <<>> THEN <<None, <<"jikan">>>>
    ELSE IF Head(resp.data).large_image_url = None THEN <<None, <<"jikan">>>>
    ELSE <<Some(CachedArtwork(Unwrap(Head(resp.data).large_image_url),
                              Some(ToString(Head(resp.data).mal_id)))),
           <<"jikan">>>>

\* the pair <<Option<String>, requests made>>
fetch_musicbrainz_artwork(artist, album, resp) ==
    IF resp.kind # "ok" THEN <<None, <<"musicbrainz">>>>
    ELSE IF resp.releases = <<>> THEN <<None, <<"musicbrainz">>>>
    ELSE IF resp.cover = 0 THEN <<None, <<"musicbrainz", "coverart">>>>
    ELSE IF resp.cover >= 200 /\ resp.cover <= 399
         THEN <<Some(COVERART_API \o "/release/" \o Head(resp.releases) \o "/front"),
                <<"musicbrainz", "coverart">>>>
    ELSE <<None, <<"musicbrainz", "coverart">>>>

-----------------------------------------------------------------------------
(* MetadataEnricher: the cache.  cache is a function from the keys present   *)
(* to CacheEntry                                                            *)

TtlMs == CACHE_TTL_SECS * 1000

CacheEntry(value, timestamp) == [value |-> value, timestamp |-> timestamp]

\* entry.timestamp.elapsed() < ttl
Fresh(entry, at) == at - entry.timestamp < TtlMs

cleanup_cache_mut_evict_all(c, at) ==
    IF Cardinality(DOMAIN c) < CACHE_CLEANUP_THRESHOLD THEN c
    ELSE [k \in {} |-> c[k]]

cleanup_cache(c, at) ==
    IF Cardinality(DOMAIN c) < CACHE_CLEANUP_THRESHOLD THEN c
    ELSE [k \in {x \in DOMAIN c : Fresh(c[x], at)} |-> c[k]]

get_cached_mut_no_ttl(c, key, at) ==
    IF key \notin DOMAIN c THEN None ELSE Some(c[key].value)

\* Option<Option<CachedArtwork>>
get_cached(c, key, at) ==
    IF key \notin DOMAIN c THEN None
    ELSE IF Fresh(c[key], at) THEN Some(c[key].value)
    ELSE None

set_cached_mut_skip_none(c, key, value, at) ==
    IF value = None THEN c
    ELSE [k \in DOMAIN c \cup {key} |->
             IF k = key THEN CacheEntry(value, at) ELSE c[k]]

set_cached_mut_conflict_clears(c, key, value, at) ==
    [k \in DOMAIN c \cup {key} |->
        IF k = key
        THEN CacheEntry(IF key \in DOMAIN c THEN None ELSE value, at)
        ELSE c[k]]

set_cached(c, key, value, at) ==
    [k \in DOMAIN c \cup {key} |->
        IF k = key THEN CacheEntry(value, at) ELSE c[k]]

\* {:?} of Option<u32>
DebugOptionU32(o) ==
    IF o = None THEN "None" ELSE "Some(" \o ToString(Unwrap(o)) \o ")"

build_cache_key(info) ==
    IF info.media_type = "Track"
    THEN "musicbrainz:" \o UnwrapOr(info.artist, "") \o ":" \o UnwrapOr(info.album, "")
    ELSE IF IsSome(info.tmdb_id)
    THEN "tmdb:" \o Unwrap(info.tmdb_id) \o ":" \o info.media_type
    ELSE "jikan:" \o UnwrapOr(info.show_name, info.title) \o ":"
            \o DebugOptionU32(info.year)

\* str::to_lowercase on the genre tags of the model
to_lowercase(g) ==
    CASE g = "Animation" -> "animation"
      [] g = "ANIME" -> "anime"
      [] g = "Anime" -> "anime"
      [] g = "Action" -> "action"
      [] g = "Drama" -> "drama"
      [] OTHER -> g

is_anime(info) ==
    \E i \in 1..Len(info.genres) :
        to_lowercase(info.genres[i]) \in {"anime", "animation"}

(* The try_* steps return [done, info, cache, calls]. *)

try_tmdb_artwork(info, cache_key, c, net, at) ==
    IF info.tmdb_id = None
    THEN [done |-> FALSE, info |-> info, cache |-> c, calls |-> <<>>]
    ELSE LET r == fetch_tmdb_artwork(Unwrap(info.tmdb_id), info.media_type, net.tmdb)
             result == r[1]
             c2 == set_cached(c, cache_key,
                       IF IsSome(result)
                       THEN Some(CachedArtwork(Unwrap(result), None)) ELSE None,
                       at)
         IN IF IsSome(result)
            THEN [done |-> TRUE, info |-> [info EXCEPT !.art_url = result],
                  cache |-> c2, calls |-> r[2]]
            ELSE [done |-> FALSE, info |-> info, cache |-> c2, calls |-> r[2]]

try_jikan_artwork_mut_cache_without_id(info, cache_key, c, net, at) ==
    IF ~is_anime(info)
    THEN [done |-> TRUE, info |-> info,
          cache |-> set_cached(c, cache_key, None, at), calls |-> <<>>]
    ELSE LET r == fetch_jikan_artwork(UnwrapOr(info.show_name, info.title),
                                      info.year, net.jikan)
             result == r[1]
             c2 == set_cached(c, cache_key,
                       IF IsSome(result)
                       THEN Some(CachedArtwork(Unwrap(result).art_url, None))
                       ELSE None,
                       at)
         IN IF IsSome(result)
            THEN [done |-> TRUE,
                  info |-> [info EXCEPT !.mal_id = Unwrap(result).mal_id,
                                        !.art_url = Some(Unwrap(result).art_url)],
                  cache |-> c2, calls |-> r[2]]
            ELSE [done |-> TRUE, info |-> info, cache |-> c2, calls |-> r[2]]

try_jikan_artwork(info, cache_key, c, net, at) ==
    IF ~is_anime(info)
    THEN [done |-> TRUE, info |-> info,
          cache |-> set_cached(c, cache_key, None, at), calls |-> <<>>]
    ELSE LET r == fetch_jikan_artwork(UnwrapOr(info.show_name, info.title),
                                      info.year, net.jikan)
             result == r[1]
             c2 == set_cached(c, cache_key, result, at)
         IN IF IsSome(result)
            THEN [done |-> TRUE,
                  info |-> [info EXCEPT !.mal_id = Unwrap(result).mal_id,
                                        !.art_url = Some(Unwrap(result).art_url)],
                  cache |-> c2, calls |-> r[2]]
            ELSE [done |-> TRUE, info |-> info, cache |-> c2, calls |-> r[2]]

try_musicbrainz_artwork(info, cache_key, c, net, at) ==
    IF ~(IsSome(info.artist) /\ IsSome(info.album))
    THEN [done |-> TRUE, info |-> info,
          cache |-> set_cached(c, cache_key, None, at), calls |-> <<>>]
    ELSE LET r == fetch_musicbrainz_artwork(Unwrap(info.artist), Unwrap(info.album),
                                            net.musicbrainz)
             result == r[1]
             c2 == set_cached(c, cache_key,
                       IF IsSome(result)
                       THEN Some(CachedArtwork(Unwrap(result), None)) ELSE None,
                       at)
         IN IF IsSome(result)
            THEN [done |-> TRUE, info |-> [info EXCEPT !.art_url = result],
                  cache |-> c2, calls |-> r[2]]
            ELSE [done |-> TRUE, info |-> info, cache |-> c2, calls |-> r[2]]

\* MetadataEnricher::enrich: [info, cache, calls, hit].  net is what each
\* lookup service would answer if asked
enrich(info, c, net, at) ==
    LET c1 == cleanup_cache(c, at)
        cache_key == build_cache_key(info)
        cached == get_cached(c1, cache_key, at)
    IN IF IsSome(cached)
       THEN [info |-> IF IsSome(Unwrap(cached))
                      THEN [info EXCEPT
                               !.art_url = Some(Unwrap(Unwrap(cached)).art_url),
                               !.mal_id = Unwrap(Unwrap(cached)).mal_id]
                      ELSE info,
             cache |-> c1, calls |-> <<>>, hit |-> TRUE]
       ELSE IF info.media_type = "Track"
       THEN LET m == try_musicbrainz_artwork(info, cache_key, c1, net, at)
            IN [info |-> m.info, cache |-> m.cache, calls |-> m.calls, hit |-> FALSE]
       ELSE LET t == try_tmdb_artwork(info, cache_key, c1, net, at)
            IN IF t.done
               THEN [info |-> t.info, cache |-> t.cache, calls |-> t.calls,
                     hit |-> FALSE]
               ELSE LET j == try_jikan_artwork(t.info, cache_key, t.cache, net, at)
                    IN [info |-> j.info, cache |-> j.cache,
                        calls |-> t.calls \o j.calls, hit |-> FALSE]

-----------------------------------------------------------------------------
(* The event stream: what one SSE message may carry.  session_user is the   *)
(* user whose session the notification is about; SseNotification has no    *)
(* such field, so the program never reads it.                               *)

PlaySessionState(state, rating_key, view_offset) ==
    [state |-> state, rating_key |-> rating_key, view_offset |-> view_offset]

Payload(valid, pss, session_user) ==
    [valid |-> valid, play_session_state |-> pss, session_user |-> session_user]

Payloads ==
    { Payload(TRUE, Some(PlaySessionState("playing", "A", Some(1000))), Owner),
      Payload(TRUE, Some(PlaySessionState("playing", "A", Some(3100))), Owner),
      Payload(TRUE, Some(PlaySessionState("playing", "A", Some(40000))), Owner),
      Payload(TRUE, Some(PlaySessionState("paused", "A", Some(1000))), Owner),
      Payload(TRUE, Some(PlaySessionState("buffering", "A", None)), Owner),
      Payload(TRUE, Some(PlaySessionState("playing", "B", Some(1000))), Owner),
      Payload(TRUE, Some(PlaySessionState("stopped", "A", Some(3100))), Owner),
      Payload(TRUE, Some(PlaySessionState("playing", "A", Some(3100))), "bob"),
      Payload(TRUE, Some(PlaySessionState("stopped", "B", Some(1000))), "bob"),
      Payload(TRUE, Some(PlaySessionState("error", "A", Some(1000))), Owner),
      Payload(TRUE, None, Owner),      \* some other notification
      Payload(FALSE, None, Owner) }    \* not an SseNotification

\* what the lookup services would answer during one enrich
MonitorNets ==
    { [tmdb |-> [kind |-> "ok", posters |-> <<"/poster.jpg">>,
                 backdrops |-> <<"/back.jpg">>],
       jikan |-> [kind |-> "ok",
                  data |-> <<[mal_id |-> 1,
                              large_image_url |-> Some("https://cdn.mal/1l.jpg")]>>],
       musicbrainz |-> [kind |-> "ok", releases |-> <<"mbid1">>, cover |-> 200]] }

ConnLists == { <<"http://10.0.0.2:32400">> }

StateOf_mut_default_playing(s) ==
    IF s = "paused" THEN Some("Paused")
    ELSE IF s = "buffering" THEN Some("Buffering")
    ELSE Some("Playing")

\* PlaybackState of a notification's state string, None for the others
StateOf(s) ==
    IF s = "playing" THEN Some("Playing")
    ELSE IF s = "paused" THEN Some("Paused")
    ELSE IF s = "buffering" THEN Some("Buffering")
    ELSE None

\* identity and phase of a notification that is a playing, paused or
\* buffering event; None for every other message
EventOf(payload) ==
    IF payload.valid /\ IsSome(payload.play_session_state)
       /\ IsSome(StateOf(Unwrap(payload.play_session_state).state))
    THEN Some([rating_key |-> Unwrap(payload.play_session_state).rating_key,
               state |-> Unwrap(StateOf(Unwrap(payload.play_session_state).state))])
    ELSE None

-----------------------------------------------------------------------------
(* The MediaUpdate channel.  tx keeps the kinds of everything sent, lastSent  *)
(* the last MediaUpdate in full.                                             *)

Kinds(sent) == [i \in 1..Len(sent) |-> sent[i].type]

Send(sent) ==
    /\ tx' = tx \o Kinds(sent)
    /\ lastSent' = IF sent = <<>> THEN lastSent ELSE Some(sent[Len(sent)])

server_uri == connections[connIdx]

-----------------------------------------------------------------------------
(* PlexServer::start_monitoring / try_connection *)

BackoffMs == SSE_RECONNECT_DELAY_SECS * 1000

Advance_mut_pass_ends_early ==
    /\ connIdx' = 0
    /\ pc' = "sleep"
    /\ wakeAt' = now + BackoffMs

\* the for loop takes its next conn, or the pass is over and the loop sleeps
Advance ==
    IF connIdx < Len(connections)
    THEN /\ connIdx' = connIdx + 1
         /\ pc' = "connect"
         /\ UNCHANGED wakeAt
    ELSE /\ connIdx' = 0
         /\ pc' = "sleep"
         /\ wakeAt' = now + BackoffMs

\* try_connection up to the while loop; ok = the client and the EventSource
\* could be built
TryConnection(ok) ==
    /\ pc = "connect"
    /\ IF ok
       THEN /\ pc' = "read"
            /\ connection_opened' = FALSE
            /\ tracker' = PlaybackTracker_new
            /\ UNCHANGED <<connIdx, wakeAt>>
       ELSE /\ Advance
            /\ UNCHANGED <<connection_opened, tracker>>
    /\ UNCHANGED <<now, ticks, username, connections, cur, tx, causes, cache, handled,
                   fetches, lastSent, prevEv>>
    /\ UNCHANGED <<lastEnrich, discord, supervisorVars, clientVars, lockVars>>

\* es.next() = Some(Ok(Event::Open))
StreamOpen ==
    /\ pc = "read"
    /\ ~connection_opened
    /\ connection_opened' = TRUE
    /\ UNCHANGED <<now, ticks, username, connections, pc, connIdx, tracker, cur,
                   wakeAt, tx, causes, cache, handled, fetches, lastSent, prevEv>>
    /\ UNCHANGED <<lastEnrich, discord, supervisorVars, clientVars, lockVars>>

\* es.next() = Some(Err(e))
StreamError ==
    /\ pc = "read"
    /\ LET r == clear_if_from_server(tracker, server_uri)
           sent == IF connection_opened /\ r[2] THEN <<Stopped>> ELSE <<>>
       IN /\ Send(sent)
          /\ causes' = causes \o [k \in 1..Len(sent) |-> handled]
    /\ tracker' = PlaybackTracker_new      \* the local is dropped on return
    /\ connection_opened' = FALSE
    /\ Advance
    /\ prevEv' = None
    /\ UNCHANGED <<now, ticks, username, connections, cur, cache, handled, fetches>>
    /\ UNCHANGED <<lastEnrich, discord, supervisorVars, clientVars, lockVars>>

\* es.next() = None
StreamEnd ==
    /\ pc = "read"
    /\ tracker' = PlaybackTracker_new      \* the local is dropped on return
    /\ connection_opened' = FALSE
    /\ Advance
    /\ prevEv' = None
    /\ UNCHANGED <<now, ticks, username, connections, cur, tx, causes, cache, handled,
                   fetches, lastSent>>
    /\ UNCHANGED <<lastEnrich, discord, supervisorVars, clientVars, lockVars>>

\* tokio::time::sleep is over; the outer loop starts its next pass
Wake ==
    /\ pc = "sleep"
    /\ now >= wakeAt
    /\ IF connections = <<>>
       THEN /\ wakeAt' = now + BackoffMs
            /\ UNCHANGED <<pc, connIdx>>
       ELSE /\ pc' = "connect"
            /\ connIdx' = 1
            /\ UNCHANGED wakeAt
    /\ UNCHANGED <<now, ticks, username, connections, connection_opened, tracker,
                   cur, tx, causes, cache, handled, fetches, lastSent, prevEv>>
    /\ UNCHANGED <<lastEnrich, discord, supervisorVars, clientVars, lockVars>>

-----------------------------------------------------------------------------
(* PlexServer::handle_sse_message *)

AwaitingNext_mut_while_handling ==
    pc \in {"read", "fetch_session", "enrich"}

\* while let Some(event) = es.next().await: the stream is asked for its next
\* event only when the body of the loop, the handler included, has returned
AwaitingNext == pc = "read"

\* es.next() = Some(Ok(Event::Message(msg))): the handler up to its first
\* network call, or to its return.  The message is number handled + 1
RecvMessage(payload) ==
    /\ AwaitingNext
    /\ connection_opened
    /\ handled < MaxMsgs
    /\ handled' = handled + 1
    /\ LET done(t, sent) ==
               /\ tracker' = t
               /\ Send(sent)
               /\ causes' = causes \o [k \in 1..Len(sent) |-> handled + 1]
               /\ prevEv' = EventOf(payload)
               /\ UNCHANGED <<pc, cur>>
       IN IF ~payload.valid THEN done(tracker, <<>>)
          ELSE IF payload.play_session_state = None THEN done(tracker, <<>>)
          ELSE LET playing == Unwrap(payload.play_session_state) IN
               IF playing.state = "stopped"
               THEN IF has_media(tracker)
                    THEN done(clear(tracker), <<Stopped>>)
                    ELSE done(tracker, <<>>)
               ELSE IF StateOf(playing.state) = None THEN done(tracker, <<>>)
               ELSE LET state == Unwrap(StateOf(playing.state))
                        view_offset == UnwrapOr(playing.view_offset, 0)
                    IN IF is_same_media(tracker, playing.rating_key)
                       THEN IF is_duplicate(tracker, state, view_offset, now)
                            THEN done(tracker, <<>>)
                            ELSE LET t == update_playback(tracker, state,
                                                          view_offset, now)
                                 IN done(t, IF IsSome(get_info(t))
                                            THEN <<Playing(Unwrap(get_info(t)))>>
                                            ELSE <<>>)
                       ELSE /\ pc' = "fetch_session"
                            /\ cur' = Some([payload |-> payload, info |-> None,
                                             n |-> handled + 1])
                            /\ UNCHANGED <<tracker, tx, causes, lastSent, prevEv>>
    /\ UNCHANGED <<now, ticks, username, connections, connIdx, connection_opened,
                   wakeAt, cache, fetches>>
    /\ UNCHANGED <<lastEnrich, discord, supervisorVars, clientVars, lockVars>>

\* self.fetch_session(server_uri).await
FetchSession(resp, item) ==
    /\ pc = "fetch_session"
    /\ fetches' = fetches + 1
    /\ LET c == Unwrap(cur)
           info == fetch_session(username, resp, item)
       IN IF info = None
          THEN /\ pc' = "read"
               /\ cur' = None
               /\ prevEv' = None
          ELSE /\ pc' = "enrich"
               /\ cur' = Some([c EXCEPT !.info = info])
               /\ UNCHANGED prevEv
    /\ UNCHANGED <<now, ticks, username, connections, connIdx, connection_opened,
                   tracker, wakeAt, tx, causes, cache, handled, lastSent>>
    /\ UNCHANGED <<lastEnrich, discord, supervisorVars, clientVars, lockVars>>

Enrich_mut_failure_drops_event(net) ==
    /\ pc = "enrich"
    /\ LET c == Unwrap(cur)
           e == enrich(Unwrap(c.info), cache, net, now)
       IN /\ cache' = e.cache
          /\ IF e.info.art_url = None
             THEN /\ UNCHANGED <<tracker, tx, lastSent, causes>>
                  /\ prevEv' = None
             ELSE /\ tracker' = set_media(tracker, e.info, server_uri, now)
                  /\ Send(<<Playing(e.info)>>)
                  /\ causes' = Append(causes, c.n)
                  /\ prevEv' = EventOf(c.payload)
    /\ pc' = "read"
    /\ cur' = None
    /\ UNCHANGED <<now, ticks, username, connections, connIdx, connection_opened,
                   wakeAt, handled, fetches>>
    /\ UNCHANGED <<lastEnrich, discord, supervisorVars, clientVars, lockVars>>

\* enricher.enrich(&mut info).await; set_media; tx.send
Enrich(net) ==
    /\ pc = "enrich"
    /\ LET c == Unwrap(cur)
           e == enrich(Unwrap(c.info), cache, net, now)
       IN /\ cache' = e.cache
          /\ tracker' = set_media(tracker, e.info, server_uri, now)
          /\ Send(<<Playing(e.info)>>)
          /\ causes' = Append(causes, c.n)
          /\ prevEv' = EventOf(c.payload)
    /\ pc' = "read"
    /\ cur' = None
    /\ UNCHANGED <<now, ticks, username, connections, connIdx, connection_opened,
                   wakeAt, handled, fetches>>
    /\ UNCHANGED <<lastEnrich, discord, supervisorVars, clientVars, lockVars>>

\* time passes while the task waits for the stream or for its timer
Tick(d) ==
    /\ ticks < MaxTicks
    /\ pc \in {"read", "sleep"}
    /\ ticks' = ticks + 1
    /\ now' = now + d
    /\ UNCHANGED <<username, connections, pc, connIdx, connection_opened,
                   tracker, cur, wakeAt, tx, causes, cache, handled, fetches, lastSent,
                   prevEv>>
    /\ UNCHANGED <<lastEnrich, discord, supervisorVars, clientVars, lockVars>>

-----------------------------------------------------------------------------
(* The monitor of one server *)

EmptyCache == [k \in {} |-> CacheEntry(None, 0)]

\* DiscordClient::new: not connected, no call made on the IPC client
DiscordClient_new == [connected |-> FALSE, ipc |-> <<>>]

\* the DiscordClient is as constructed and nothing calls it
NoDiscord == discord = DiscordClient_new

\* no run_sse_loop has been spawned
NoSupervisor ==
    /\ sse_cancel_token = 0
    /\ cancelled = {}
    /\ app_cancel_token = FALSE
    /\ loops = <<>>
    /\ media_rx = <<>>
    /\ received = <<>>
    /\ media_sent = 0

\* no PlexClient runs start_sse_monitoring
NoClient ==
    /\ servers = <<>>
    /\ client = [pc |-> "idle"]

\* no task is between lock requests
NoLocks ==
    /\ tasks = <<>>
    /\ cache_lock = [writer |-> 0, readers |-> {}, queue |-> <<>>]

\* PlexServer::new, then the first pass of start_monitoring begins
MonitorInit(users, lists) ==
    /\ now = 0
    /\ ticks = 0
    /\ username \in users
    /\ connections \in lists
    /\ pc = IF connections = <<>> THEN "sleep" ELSE "connect"
    /\ connIdx = IF connections = <<>> THEN 0 ELSE 1
    /\ connection_opened = FALSE
    /\ tracker = PlaybackTracker_new
    /\ cur = None
    /\ wakeAt = IF connections = <<>> THEN BackoffMs ELSE 0
    /\ tx = <<>>
    /\ cache = EmptyCache
    /\ handled = 0
    /\ fetches = 0
    /\ lastSent = None
    /\ prevEv = None
    /\ causes = <<>>
    /\ lastEnrich = None
    /\ NoDiscord
    /\ NoSupervisor
    /\ NoClient
    /\ NoLocks

Init == MonitorInit({None, Some(Owner)}, ConnLists)

Next ==
    \/ \E ok \in BOOLEAN : TryConnection(ok)
    \/ StreamOpen
    \/ \E payload \in Payloads : RecvMessage(payload)
    \/ \E resp \in SessionResponses, item \in ItemResponses : FetchSession(resp, item)
    \/ \E net \in MonitorNets : Enrich(net)
    \/ StreamError
    \/ StreamEnd
    \/ Wake
    \/ \E d \in Delays : Tick(d)

Spec == Init /\ [][Next]_vars

-----------------------------------------------------------------------------
(* Properties of handle_sse_message, under Spec *)

\* the event of a payload, and the position the handler reads from it
Event(payload) == Unwrap(payload.play_session_state)
PositionOf(payload) == UnwrapOr(Event(payload).view_offset, 0)

\* stored position plus the wall-clock milliseconds since the last stored update
Extrapolated == Unwrap(tracker.cached_info).view_offset_ms
                    + (now - Unwrap(tracker.last_update))

\* C2: an event whose identity is the tracked identity and whose phase differs
\* from the stored phase, or whose position is more than 30000 ms away from the
\* extrapolated position, emits exactly one Playing, and that Playing carries
\* the event's phase and position.
C2_RealUpdateEmitsEventPhaseAndPosition ==
    [][\A payload \in Payloads :
          ( /\ RecvMessage(payload)
            /\ IsSome(EventOf(payload))
            /\ IsSome(tracker.cached_info)
            /\ Unwrap(tracker.cached_info).rating_key
                   = Some(Event(payload).rating_key)
            /\ \/ Unwrap(tracker.cached_info).state
                       # Unwrap(EventOf(payload)).state
               \/ AbsDiff(Extrapolated, PositionOf(payload)) > 30000 )
          => /\ tx' = Append(tx, "Playing")
             /\ Unwrap(lastSent').type = "Playing"
             /\ Unwrap(Unwrap(lastSent').info).state
                    = Unwrap(EventOf(payload)).state
             /\ Unwrap(Unwrap(lastSent').info).view_offset_ms
                    = PositionOf(payload)
             /\ Unwrap(Unwrap(lastSent').info).rating_key
                    = Some(Event(payload).rating_key)]_vars

\* a second Playing, position 40000, went out for A without a second fetch
C2_Witness ==
    /\ tx = <<"Playing", "Playing">>
    /\ fetches = 1
    /\ pc = "read"
    /\ IsSome(lastSent)
    /\ Unwrap(lastSent).type = "Playing"
    /\ Unwrap(Unwrap(lastSent).info).rating_key = Some("A")
    /\ Unwrap(Unwrap(lastSent).info).view_offset_ms = 40000
    /\ prevEv = Some([rating_key |-> "A", state |-> "Playing"])

\* C3: with a non-empty tracker a stopped event clears the tracker and emits
\* exactly one Stopped; with an empty tracker it emits nothing and changes
\* nothing.
C3_StoppedClearsOnceOrIsIgnored ==
    [][\A payload \in Payloads :
          ( /\ RecvMessage(payload)
            /\ payload.valid
            /\ IsSome(payload.play_session_state)
            /\ Event(payload).state = "stopped" )
          => IF IsSome(tracker.cached_info)
             THEN /\ tracker' = PlaybackTracker_new
                  /\ tx' = Append(tx, "Stopped")
                  /\ lastSent' = Some(Stopped)
             ELSE /\ tx' = tx
                  /\ UNCHANGED <<tracker, lastSent, cache, pc, cur>>]_vars

\* a stopped event ended the session the first event had started; no time has
\* passed, so no connection was dropped in between
C3_Witness ==
    /\ tx = <<"Playing", "Stopped">>
    /\ now = 0
    /\ handled = 2
    /\ pc = "read"
    /\ tracker = PlaybackTracker_new
    /\ lastSent = Some(Stopped)

\* an event that repeats the identity and the phase of the event handled just
\* before it, at a position within the threshold of the extrapolated position
Repeats(payload) ==
    /\ IsSome(prevEv)
    /\ EventOf(payload) = prevEv
    /\ IsSome(tracker.cached_info)
    /\ AbsDiff(Extrapolated, PositionOf(payload)) <= 30000

\* C1: of consecutive non-stopped events on one connection that carry the same
\* identity and the same phase, each at a position within 30000 ms of the
\* extrapolated position, only the first emits a Playing: a later one emits
\* nothing, neither at once nor after a session fetch.
C1_RepeatedEventEmitsNothing ==
    [][/\ \A payload \in Payloads :
             (RecvMessage(payload) /\ Repeats(payload)) => tx' = tx
       /\ \A net \in MonitorNets :
             (Enrich(net) /\ Repeats(Unwrap(cur).payload)) => tx' = tx]_vars

\* C4: when a non-stopped event with identity B follows a non-stopped event
\* with another identity A whose record is stored, and B's session fetch
\* succeeds, a second Playing is emitted after a second fetch, the Playing is
\* B's, and the tracker then holds B's record.
C4_NewSessionReplacesRecord ==
    [][\A net \in MonitorNets :
          ( /\ Enrich(net)
            /\ IsSome(prevEv)
            /\ IsSome(tracker.cached_info)
            /\ Unwrap(prevEv).rating_key # Event(Unwrap(cur).payload).rating_key )
          => /\ tx' = Append(tx, "Playing")
             /\ fetches >= 2
             /\ Unwrap(tracker'.cached_info).rating_key
                    = Some(Event(Unwrap(cur).payload).rating_key)
             /\ lastSent' = Some(Playing(Unwrap(tracker'.cached_info)))]_vars

\* C8: with an owner username configured, a notification about a session of
\* another user emits nothing and leaves the tracker as it is, whatever its
\* phase.
C8_OtherUsersNotificationIsDropped ==
    [][/\ \A payload \in Payloads :
             ( /\ RecvMessage(payload)
               /\ IsSome(username)
               /\ payload.valid
               /\ IsSome(payload.play_session_state)
               /\ payload.session_user # Unwrap(username) )
             => (tx' = tx /\ tracker' = tracker)
       /\ \A net \in MonitorNets :
             ( /\ Enrich(net)
               /\ IsSome(username)
               /\ Unwrap(cur).payload.session_user # Unwrap(username) )
             => (tx' = tx /\ tracker' = tracker)]_vars

-----------------------------------------------------------------------------
(* start_monitoring over several endpoints.  The stream carries few kinds   *)
(* of message here.                                                         *)

RotationLists == { <<>>, <<"http://10.0.0.2:32400", "https://plex.example:443">> }

RotationPayloads ==
    { Payload(TRUE, Some(PlaySessionState("playing", "A", Some(1000))), Owner),
      Payload(TRUE, Some(PlaySessionState("stopped", "A", Some(3100))), Owner) }

RotationResponses ==
    { r \in SessionResponses :
         \/ r.kind = "error"
         \/ r.sessions = <<MovieA(Some(Owner), Some("playing"), Some(1000))>> }

ConnInit == MonitorInit({Some(Owner)}, RotationLists)

ConnNext ==
    \/ \E ok \in BOOLEAN : TryConnection(ok)
    \/ StreamOpen
    \/ \E payload \in RotationPayloads : RecvMessage(payload)
    \/ \E resp \in RotationResponses, item \in ItemResponses :
          FetchSession(resp, item)
    \/ \E net \in MonitorNets : Enrich(net)
    \/ StreamError
    \/ StreamEnd
    \/ Wake
    \/ \E d \in Delays : Tick(d)

ConnSpec == ConnInit /\ [][ConnNext]_vars

-----------------------------------------------------------------------------
(* start_monitoring run without end.  No session fetch succeeds here, so    *)
(* the tracker and the cache stay empty and no Instant is stored when a     *)
(* pass begins: the time origin is moved to `now` there, which keeps the    *)
(* clock bounded over an endless run.                                       *)

FailedResponses == { r \in SessionResponses : r.kind # "ok" }

\* the backoff sleep runs out
SleepElapses ==
    /\ pc = "sleep"
    /\ now < wakeAt
    /\ now' = wakeAt
    /\ UNCHANGED <<ticks, username, connections, pc, connIdx, connection_opened,
                   tracker, cur, wakeAt, tx, causes, cache, handled, fetches, lastSent,
                   prevEv>>
    /\ UNCHANGED <<lastEnrich, discord, supervisorVars, clientVars, lockVars>>

WakeRebased_mut_skip_first ==
    /\ pc = "sleep"
    /\ now >= wakeAt
    /\ IF connections = <<>>
       THEN /\ wakeAt' = BackoffMs
            /\ UNCHANGED <<pc, connIdx>>
       ELSE /\ pc' = "connect"
            /\ connIdx' = Len(connections)
            /\ wakeAt' = 0
    /\ now' = 0
    /\ UNCHANGED <<ticks, username, connections, connection_opened, tracker,
                   cur, tx, causes, cache, handled, fetches, lastSent, prevEv>>
    /\ UNCHANGED <<lastEnrich, discord, supervisorVars, clientVars, lockVars>>

\* Wake, with the time origin moved to `now`
WakeRebased ==
    /\ pc = "sleep"
    /\ now >= wakeAt
    /\ IF connections = <<>>
       THEN /\ wakeAt' = BackoffMs
            /\ UNCHANGED <<pc, connIdx>>
       ELSE /\ pc' = "connect"
            /\ connIdx' = 1
            /\ wakeAt' = 0
    /\ now' = 0
    /\ UNCHANGED <<ticks, username, connections, connection_opened, tracker,
                   cur, tx, causes, cache, handled, fetches, lastSent, prevEv>>
    /\ UNCHANGED <<lastEnrich, discord, supervisorVars, clientVars, lockVars>>

LiveNext ==
    \/ \E ok \in BOOLEAN : TryConnection(ok)
    \/ StreamOpen
    \/ \E payload \in Payloads : RecvMessage(payload)
    \/ \E resp \in FailedResponses, item \in ItemResponses :
          FetchSession(resp, item)
    \/ StreamError
    \/ StreamEnd
    \/ SleepElapses
    \/ WakeRebased
    \/ \E d \in Delays : Tick(d)

\* the runtime runs the task whenever it can take a step, the timer fires,
\* the request of a handler ends, and every attempt's stream ends at some time
LiveFairness ==
    /\ WF_vars(\E ok \in BOOLEAN : TryConnection(ok))
    /\ WF_vars(\E resp \in FailedResponses, item \in ItemResponses :
                  FetchSession(resp, item))
    /\ WF_vars(StreamError \/ StreamEnd)
    /\ WF_vars(SleepElapses)
    /\ WF_vars(WakeRebased)

LiveSpec == ConnInit /\ [][LiveNext]_vars /\ LiveFairness

\* C7: when a connection that has reported Open ends, by a stream error or by
\* the stream finishing, while the tracker holds a record, a Stopped is emitted
\* and the tracker is cleared before the next endpoint is attempted.
C7_DroppedConnectionEmitsStopped ==
    [][( /\ StreamError \/ StreamEnd
         /\ connection_opened
         /\ IsSome(tracker.cached_info) )
       => /\ tx' = Append(tx, "Stopped")
          /\ lastSent' = Some(Stopped)
          /\ tracker'.cached_info = None]_vars

\* C9: start_monitoring never returns: whatever has failed so far, every
\* candidate endpoint is attempted again and again.
C9_EveryEndpointAttemptedForever ==
    \A i \in 1..2 :
        (i <= Len(connections)) =>
            []<><<(\E ok \in BOOLEAN : TryConnection(ok)) /\ connIdx = i>>_vars

\* the first endpoint is up for its next attempt after a connection that had
\* delivered a message has ended and a whole pass is over
C9_Witness ==
    /\ pc = "connect"
    /\ connIdx = 1
    /\ Len(connections) = 2
    /\ handled >= 1
    /\ fetches >= 1

-----------------------------------------------------------------------------
(* MetadataEnricher::enrich called on its own, over long spans of time *)

\* SessionMetadata of a track
TrackC(parent_title) ==
    [title |-> "Song", media_type |-> "track", duration |-> Some(30000),
     view_offset |-> Some(0), year |-> None,
     grandparent_title |-> Some("Artist"), parent_index |-> None,
     index |-> Some(1), parent_title |-> parent_title, genre |-> <<>>,
     player |-> Some("playing"), user |-> Some(Owner), guids |-> <<>>,
     rating_key |-> Some("C"), grandparent_key |-> None,
     key |-> Some("/library/metadata/C")]

WithIds == Some([guids |-> <<Guid("tmdb", "603")>>, genres |-> <<>>])

\* the records enrich is called with
CacheInfos ==
    { \* key tmdb:603:Movie, twice: two records of one key
      enrich_external_ids(
          Unwrap(parse_session(MovieA(Some(Owner), Some("playing"), Some(1000)))),
          WithIds),
      enrich_external_ids(
          Unwrap(parse_session(MovieA(Some(Owner), Some("paused"), Some(3100)))),
          WithIds),
      \* no tmdb id, not anime: nothing to ask any service
      Unwrap(parse_session(MovieA(Some(Owner), Some("playing"), Some(1000)))),
      \* no tmdb id, anime
      [Unwrap(parse_session(EpisodeB(Some(Owner), Some("playing"), Some(1000))))
          EXCEPT !.genres = <<"Anime">>],
      \* a track with artist and album
      Unwrap(parse_session(TrackC(Some("Album")))) }

\* what the lookup services would answer during one enrich
CacheNets ==
    { [tmdb |-> [kind |-> "ok", posters |-> <<>>, backdrops |-> <<>>],
       jikan |-> [kind |-> "error", data |-> <<>>],
       musicbrainz |-> [kind |-> "ok", releases |-> <<>>, cover |-> 0]],
      [tmdb |-> [kind |-> "ok", posters |-> <<"/poster.jpg">>,
                 backdrops |-> <<"/back.jpg">>],
       jikan |-> [kind |-> "ok",
                  data |-> <<[mal_id |-> 1,
                              large_image_url |-> Some("https://cdn.mal/1l.jpg")]>>],
       musicbrainz |-> [kind |-> "ok", releases |-> <<"mbid1">>, cover |-> 200]] }

\* the time between two calls (ms): seconds, or more than the TTL
CacheDelays == {2000, TtlMs + 1000}

\* a cache one insertion below the sweep threshold, filled at time 0
FillerKeys == { "tmdb:" \o ToString(1000 + i) \o ":Movie" :
                  i \in 1..(CACHE_CLEANUP_THRESHOLD - 1) }

Fillers == [k \in FillerKeys |-> CacheEntry(None, 0)]

\* enricher.enrich(&mut info).await
EnrichCall(info, net) ==
    /\ LET key == build_cache_key(info)
           e == enrich(info, cache, net, now)
       IN /\ cache' = e.cache
          /\ lastEnrich' = Some([key |-> key,
                                 had |-> key \in DOMAIN cache,
                                 hit |-> e.hit,
                                 calls |-> e.calls,
                                 art_url |-> e.info.art_url,
                                 swept |-> Cardinality(DOMAIN cache)
                                     - Cardinality(DOMAIN cleanup_cache(cache, now)),
                                 stamp |-> IF key \in DOMAIN e.cache
                                           THEN Some(e.cache[key].timestamp)
                                           ELSE None])
    /\ UNCHANGED <<now, ticks, discord, monitorVars, supervisorVars, clientVars, lockVars>>

\* time passes between two calls
Elapse(d) ==
    /\ ticks < MaxTicks
    /\ ticks' = ticks + 1
    /\ now' = now + d
    /\ UNCHANGED <<cache, lastEnrich, discord, monitorVars, supervisorVars, clientVars,
                   lockVars>>

\* no monitor runs
NoMonitor ==
    /\ username = None
    /\ connections = <<>>
    /\ pc = "idle"
    /\ connIdx = 0
    /\ connection_opened = FALSE
    /\ tracker = PlaybackTracker_new
    /\ cur = None
    /\ wakeAt = 0
    /\ tx = <<>>
    /\ handled = 0
    /\ fetches = 0
    /\ lastSent = None
    /\ prevEv = None
    /\ causes = <<>>

CacheInit ==
    /\ now = 0
    /\ ticks = 0
    /\ cache \in {EmptyCache, Fillers}
    /\ lastEnrich = None
    /\ NoDiscord
    /\ NoMonitor
    /\ NoSupervisor
    /\ NoClient
    /\ NoLocks

CacheNext ==
    \/ \E info \in CacheInfos, net \in CacheNets : EnrichCall(info, net)
    \/ \E d \in CacheDelays : Elapse(d)

CacheSpec == CacheInit /\ [][CacheNext]_vars

\* C5: every call of enrich leaves its result in the cache under the record's
\* key, "not found" included; and of two calls in sequence for records of one
\* cache key, the second made while the result of the first is within the TTL,
\* the second makes no call to a lookup service and gives the same artwork.
C5_SecondCallWithinTtlMakesNoRequest ==
    [][\A info \in CacheInfos, net \in CacheNets :
          EnrichCall(info, net)
          => /\ IsSome(Unwrap(lastEnrich').stamp)
             /\ ( /\ IsSome(lastEnrich)
                  /\ Unwrap(lastEnrich).key = build_cache_key(info)
                  /\ now - Unwrap(Unwrap(lastEnrich).stamp)
                        < CACHE_TTL_SECS * 1000 )
                => /\ Unwrap(lastEnrich').calls = <<>>
                   /\ Unwrap(lastEnrich').hit
                   /\ Unwrap(lastEnrich').art_url = Unwrap(lastEnrich).art_url
                   /\ cache'[build_cache_key(info)]
                         = cache[build_cache_key(info)]]_vars

\* tmdb:603:Movie was not found, and a later call within the TTL was answered
\* from the cache without a request
C5_Witness ==
    /\ IsSome(lastEnrich)
    /\ Unwrap(lastEnrich).key = "tmdb:603:Movie"
    /\ Unwrap(lastEnrich).hit
    /\ Unwrap(lastEnrich).calls = <<>>
    /\ Unwrap(lastEnrich).art_url = None
    /\ Unwrap(lastEnrich).stamp = Some(0)
    /\ now = 2000
    /\ cache["tmdb:603:Movie"].value = None

\* a record that gives a lookup service something to ask for
Queryable(info) ==
    IF info.media_type = "Track" THEN IsSome(info.artist) /\ IsSome(info.album)
    ELSE IsSome(info.tmdb_id) \/ is_anime(info)

\* C6 as stated: when the entry of the record's key is older than the TTL,
\* enrich takes the key for a miss and performs a lookup: it calls a lookup
\* service.
C6_ExpiredEntryForcesLookup ==
    [][\A info \in CacheInfos, net \in CacheNets :
          ( /\ EnrichCall(info, net)
            /\ build_cache_key(info) \in DOMAIN cache
            /\ now - cache[build_cache_key(info)].timestamp
                  > CACHE_TTL_SECS * 1000 )
          => /\ ~Unwrap(lastEnrich').hit
             /\ Unwrap(lastEnrich').calls # <<>>]_vars

\* C6, amended: an entry older than the TTL is never returned as a hit by
\* get_cached, whatever the size of the cache and whether or not a sweep has
\* run; enrich then takes the key for a miss and stores the outcome of the
\* lookup chain as a fresh entry, and it calls a lookup service exactly when
\* the record gives one something to ask for (a tmdb id, an anime genre, or a
\* track's artist and album).
C6_ExpiredEntryIsNeverAHit ==
    [][/\ \A key \in DOMAIN cache :
             now - cache[key].timestamp > CACHE_TTL_SECS * 1000
                => get_cached(cache, key, now) = None
       /\ \A info \in CacheInfos, net \in CacheNets :
             ( /\ EnrichCall(info, net)
               /\ build_cache_key(info) \in DOMAIN cache
               /\ now - cache[build_cache_key(info)].timestamp
                     > CACHE_TTL_SECS * 1000 )
             => /\ ~Unwrap(lastEnrich').hit
                /\ Queryable(info) <=> Unwrap(lastEnrich').calls # <<>>
                /\ cache'[build_cache_key(info)].timestamp = now]_vars

\* an entry of tmdb:603:Movie had outlived the TTL in a cache too small to be
\* swept, and the next enrich asked the service again
C6_Witness ==
    /\ IsSome(lastEnrich)
    /\ Unwrap(lastEnrich).key = "tmdb:603:Movie"
    /\ Unwrap(lastEnrich).had
    /\ ~Unwrap(lastEnrich).hit
    /\ Unwrap(lastEnrich).calls = <<"tmdb">>
    /\ Unwrap(lastEnrich).stamp = Some(now)
    /\ now = CACHE_TTL_SECS * 1000 + 1000
    /\ Cardinality(DOMAIN cache) < CACHE_CLEANUP_THRESHOLD

-----------------------------------------------------------------------------
(* main.rs: run_sse_loop, handle_authentication, handle_media_updates.  A    *)
(* CancellationToken is a number; cancelled holds the tokens on which        *)
(* cancel() was called.  Each task of loops has its credential `token`, its  *)
(* place pc, in current_sse_cancel the clone it took at the top of its loop, *)
(* and in calls the network calls its start_sse_monitoring has started.      *)
(* polled says that the monitoring future has been polled in the round of    *)
(* select! in which a cancellation became ready: select! polls its branches  *)
(* in random order, so the monitoring branch may run once more before the    *)
(* cancellation branch is taken.                                             *)

MaxAuths == 2           \* re-authentications in one run
MaxCalls == 1           \* network calls one run_sse_loop starts in one run
MaxSends == 2           \* messages sent on the MediaInfo channel in one run

SseLoop(token) ==
    [token |-> token, pc |-> "top", current_sse_cancel |-> 0, calls |-> 0,
     polled |-> FALSE]

\* one of the cancellation branches of the select! of loop i is ready
CancelReady(i) ==
    app_cancel_token \/ loops[i].current_sse_cancel \in cancelled

\* select! polls the branch of plex.start_sse_monitoring(..) of loop i
MonitoringPolled(i) ==
    /\ loops[i].pc = "select"
    /\ CancelReady(i) => ~loops[i].polled

\* let current_sse_cancel = sse_cancel.lock().await.clone();
LoopTop(i) ==
    /\ loops[i].pc = "top"
    /\ loops' = [loops EXCEPT ![i].pc = "select",
                              ![i].current_sse_cancel = sse_cancel_token,
                              ![i].polled = FALSE]
    /\ UNCHANGED <<sse_cancel_token, cancelled, app_cancel_token, channelVars>>
    /\ UNCHANGED <<now, ticks, cache, lastEnrich, discord, monitorVars, clientVars, lockVars>>

\* select!: app_cancel.cancelled() => break
SelectAppCancelled(i) ==
    /\ loops[i].pc = "select"
    /\ app_cancel_token
    /\ loops' = [loops EXCEPT ![i].pc = "done"]
    /\ UNCHANGED <<sse_cancel_token, cancelled, app_cancel_token, channelVars>>
    /\ UNCHANGED <<now, ticks, cache, lastEnrich, discord, monitorVars, clientVars, lockVars>>

\* select!: current_sse_cancel.cancelled() => break
SelectSseCancelled(i) ==
    /\ loops[i].pc = "select"
    /\ loops[i].current_sse_cancel \in cancelled
    /\ loops' = [loops EXCEPT ![i].pc = "done"]
    /\ UNCHANGED <<sse_cancel_token, cancelled, app_cancel_token, channelVars>>
    /\ UNCHANGED <<now, ticks, cache, lastEnrich, discord, monitorVars, clientVars, lockVars>>

\* start_sse_monitoring of loop i starts a network call: the username or the
\* server list from plex.tv, a subscription, a session fetch, a lookup
StartCall(i) ==
    /\ MonitoringPolled(i)
    /\ loops[i].calls < MaxCalls
    /\ loops' = [loops EXCEPT ![i].calls = @ + 1,
                              ![i].polled = CancelReady(i)]
    /\ UNCHANGED <<sse_cancel_token, cancelled, app_cancel_token, channelVars>>
    /\ UNCHANGED <<now, ticks, cache, lastEnrich, discord, monitorVars, clientVars, lockVars>>

\* start_sse_monitoring of loop i sends a message: tx.send(..).  The message
\* is numbered in the order of sending; sent_under notes the token that was
\* in the mutex when it was sent
SendUpdate(i) ==
    /\ MonitoringPolled(i)
    /\ media_sent < MaxSends
    /\ media_sent' = media_sent + 1
    /\ media_rx' = Append(media_rx, [n |-> media_sent + 1,
                                     sent_under |-> sse_cancel_token])
    /\ loops' = [loops EXCEPT ![i].polled = CancelReady(i)]
    /\ UNCHANGED <<sse_cancel_token, cancelled, app_cancel_token, received>>
    /\ UNCHANGED <<now, ticks, cache, lastEnrich, discord, monitorVars, clientVars, lockVars>>

\* select!: plex.start_sse_monitoring(..) returned; the branch goes to sleep
MonitoringReturns(i) ==
    /\ MonitoringPolled(i)
    /\ loops' = [loops EXCEPT ![i].pc = "sleep"]
    /\ UNCHANGED <<sse_cancel_token, cancelled, app_cancel_token, channelVars>>
    /\ UNCHANGED <<now, ticks, cache, lastEnrich, discord, monitorVars, clientVars, lockVars>>

SleepDone_mut_sleep_never_ends(i) ==
    /\ loops[i].pc = "sleep"
    /\ loops' = [loops EXCEPT ![i].polled = FALSE]
    /\ UNCHANGED <<sse_cancel_token, cancelled, app_cancel_token, channelVars>>
    /\ UNCHANGED <<now, ticks, cache, lastEnrich, discord, monitorVars, clientVars, lockVars>>

\* the sleep of the branch is over; the loop goes round
SleepDone(i) ==
    /\ loops[i].pc = "sleep"
    /\ loops' = [loops EXCEPT ![i].pc = "top"]
    /\ UNCHANGED <<sse_cancel_token, cancelled, app_cancel_token, channelVars>>
    /\ UNCHANGED <<now, ticks, cache, lastEnrich, discord, monitorVars, clientVars, lockVars>>

\* handle_media_updates: media_rx.recv().await gives the oldest message;
\* received_under notes the token in the mutex at that moment
HandleMediaUpdate ==
    /\ media_rx # <<>>
    /\ received' = Append(received, [n |-> Head(media_rx).n,
                                     sent_under |-> Head(media_rx).sent_under,
                                     received_under |-> sse_cancel_token])
    /\ media_rx' = Tail(media_rx)
    /\ UNCHANGED <<sse_cancel_token, cancelled, app_cancel_token, loops, media_sent>>
    /\ UNCHANGED <<now, ticks, cache, lastEnrich, discord, monitorVars, clientVars, lockVars>>

Authenticate_mut_new_channel ==
    /\ ~app_cancel_token
    /\ sse_cancel_token < MaxAuths
    /\ cancelled' = cancelled \cup {sse_cancel_token}
    /\ sse_cancel_token' = sse_cancel_token + 1
    /\ loops' = Append(loops, SseLoop(sse_cancel_token + 1))
    /\ media_rx' = <<>>
    /\ UNCHANGED <<app_cancel_token, received, media_sent>>
    /\ UNCHANGED <<now, ticks, cache, lastEnrich, discord, monitorVars, clientVars, lockVars>>

\* handle_authentication, the auth flow having given a new plex token: the
\* token in the mutex is cancelled and replaced, a new run_sse_loop is spawned
\* with a clone of the same media_tx
Authenticate ==
    /\ ~app_cancel_token
    /\ sse_cancel_token < MaxAuths
    /\ cancelled' = cancelled \cup {sse_cancel_token}
    /\ sse_cancel_token' = sse_cancel_token + 1
    /\ loops' = Append(loops, SseLoop(sse_cancel_token + 1))
    /\ UNCHANGED <<app_cancel_token, channelVars>>
    /\ UNCHANGED <<now, ticks, cache, lastEnrich, discord, monitorVars, clientVars, lockVars>>

\* AppMessage::Quit
Quit ==
    /\ ~app_cancel_token
    /\ app_cancel_token' = TRUE
    /\ UNCHANGED <<sse_cancel_token, cancelled, loops, channelVars>>
    /\ UNCHANGED <<now, ticks, cache, lastEnrich, discord, monitorVars, clientVars, lockVars>>

\* main: a run_sse_loop is spawned at start when the config holds a token
SupInit ==
    /\ now = 0
    /\ ticks = 0
    /\ cache = EmptyCache
    /\ lastEnrich = None
    /\ NoDiscord
    /\ NoMonitor
    /\ sse_cancel_token = 0
    /\ cancelled = {}
    /\ app_cancel_token = FALSE
    /\ loops \in {<<>>, <<SseLoop(0)>>}
    /\ media_rx = <<>>
    /\ received = <<>>
    /\ media_sent = 0
    /\ NoClient
    /\ NoLocks

SupNext ==
    \/ \E i \in 1..Len(loops) : LoopTop(i)
    \/ \E i \in 1..Len(loops) : SelectAppCancelled(i)
    \/ \E i \in 1..Len(loops) : SelectSseCancelled(i)
    \/ \E i \in 1..Len(loops) : StartCall(i)
    \/ \E i \in 1..Len(loops) : MonitoringReturns(i)
    \/ \E i \in 1..Len(loops) : SleepDone(i)
    \/ Authenticate
    \/ Quit

SupSpec == SupInit /\ [][SupNext]_vars

\* the same tasks up to shutdown, watched at the channel: what the loops send
\* and what handle_media_updates takes
ChanNext ==
    \/ \E i \in 1..Len(loops) : LoopTop(i)
    \/ \E i \in 1..Len(loops) : SelectSseCancelled(i)
    \/ \E i \in 1..Len(loops) : SendUpdate(i)
    \/ \E i \in 1..Len(loops) : MonitoringReturns(i)
    \/ \E i \in 1..Len(loops) : SleepDone(i)
    \/ HandleMediaUpdate
    \/ Authenticate

ChanSpec == SupInit /\ [][ChanNext]_vars

\* C10: once re-authentication has replaced the monitoring set, no run_sse_loop
\* spawned before it goes on monitoring: a loop that is inside
\* start_sse_monitoring under a token nobody has cancelled is the loop spawned
\* last, the one with the newest credential.
C10_OnlyNewestLoopMonitors ==
    \A i \in 1..Len(loops) :
        ( /\ loops[i].pc = "select"
          /\ loops[i].current_sse_cancel \notin cancelled )
        => i = Len(loops)

-----------------------------------------------------------------------------
(* The channel across a replacement of the monitoring set *)

\* the numbers of the messages of a sequence
Numbers(q) == [k \in 1..Len(q) |-> q[k].n]

\* C11: cancelling the monitors neither drops nor reorders what is queued:
\* at every moment, what the consumer has taken followed by what is still in
\* the channel is every message sent so far, in the order of sending; so a
\* message sent before a replacement of the monitoring set is still taken by
\* the consumer, in its place, after the replacement.
C11_QueuedEventsSurviveReplacement ==
    Numbers(received) \o Numbers(media_rx) = [k \in 1..media_sent |-> k]

\* two messages sent before a re-authentication are taken after it, in order
C11_Witness ==
    /\ Len(received) >= 2
    /\ \A k \in 1..2 : /\ received[k].n = k
                       /\ received[k].sent_under = 0
                       /\ received[k].received_under >= 1

\* C20: once the shutdown token or the re-authentication token of a
\* run_sse_loop has been cancelled, that loop starts no new network call.
C20_CancelledLoopStartsNoCall ==
    [][\A i \in 1..Len(loops) :
          StartCall(i) => /\ ~app_cancel_token
                          /\ loops[i].token \notin cancelled]_vars

-----------------------------------------------------------------------------
(* plex.rs: PlexClient::start_sse_monitoring, the monitoring that             *)
(* run_sse_loop calls.  servers is what get_servers returned; client holds   *)
(* the place of the one task: pc, the indices srv and conn of the two for    *)
(* loops, the cached username and whether the subscription reported Open.    *)

PlexServerInfo(name, access_token, uris) ==
    [name |-> name, access_token |-> access_token, connections |-> uris]

\* what GET {PLEX_API}/resources may list, after the filter of get_servers
\* (a server with no connection is dropped there)
DiscoveredServers ==
    { PlexServerInfo("home", Some("tok-home"), <<"http://10.0.0.2:32400">>),
      PlexServerInfo("nas", Some("tok-nas"),
                     <<"http://10.0.0.3:32400", "https://nas.example:443">>),
      PlexServerInfo("shared", None, <<"https://friend.example:443">>) }

DiscoveredLists ==
    { <<>> } \cup { <<a>> : a \in DiscoveredServers }
             \cup { l \in { <<a, b>> : a, b \in DiscoveredServers } :
                         l[1] # l[2] }

PlexClient_new ==
    [pc |-> "start", srv |-> 0, conn |-> 0, username |-> None, opened |-> FALSE]

\* start_sse_monitoring up to get_servers: fetch_username is called while no
\* username is known; u is what it gives
StartSseMonitoring(u) ==
    /\ client.pc = "start"
    /\ client' = [client EXCEPT !.pc = "get_servers",
                                !.username = IF client.username = None
                                             THEN u ELSE client.username]
    /\ UNCHANGED servers
    /\ UNCHANGED <<now, ticks, cache, lastEnrich, discord, monitorVars, supervisorVars,
                   lockVars>>

\* self.get_servers(token).await: None and the empty list end the call
GetServers(r) ==
    /\ client.pc = "get_servers"
    /\ IF r = None \/ r = Some(<<>>)
       THEN /\ client' = [client EXCEPT !.pc = "returned"]
            /\ UNCHANGED servers
       ELSE /\ servers' = Unwrap(r)
            /\ client' = [client EXCEPT !.pc = "server", !.srv = 1, !.conn = 0]
    /\ UNCHANGED <<now, ticks, cache, lastEnrich, discord, monitorVars, supervisorVars,
                   lockVars>>

\* for server in &servers: a server without access token is skipped; after
\* the last server the call returns
ForServer ==
    /\ client.pc = "server"
    /\ client' =
         IF client.srv > Len(servers)
         THEN [client EXCEPT !.pc = "returned", !.srv = 0, !.conn = 0]
         ELSE IF servers[client.srv].access_token = None
         THEN [client EXCEPT !.srv = @ + 1]
         ELSE [client EXCEPT !.pc = "connect", !.conn = 1]
    /\ UNCHANGED servers
    /\ UNCHANGED <<now, ticks, cache, lastEnrich, discord, monitorVars, supervisorVars,
                   lockVars>>

\* monitor_server_connection up to its while loop; ok = the EventSource
\* could be built
MonitorServerConnection(ok) ==
    /\ client.pc = "connect"
    /\ client' = [client EXCEPT !.pc = IF ok THEN "stream" ELSE "sleep",
                                !.opened = FALSE]
    /\ UNCHANGED servers
    /\ UNCHANGED <<now, ticks, cache, lastEnrich, discord, monitorVars, supervisorVars,
                   lockVars>>

\* es.next() = Some(Ok(Event::Open))
EventOpen ==
    /\ client.pc = "stream"
    /\ ~client.opened
    /\ client' = [client EXCEPT !.opened = TRUE]
    /\ UNCHANGED servers
    /\ UNCHANGED <<now, ticks, cache, lastEnrich, discord, monitorVars, supervisorVars,
                   lockVars>>

\* es.next() = Some(Err(e)) or None: monitor_server_connection returns
ConnectionLost ==
    /\ client.pc = "stream"
    /\ client' = [client EXCEPT !.pc = "sleep", !.opened = FALSE]
    /\ UNCHANGED servers
    /\ UNCHANGED <<now, ticks, cache, lastEnrich, discord, monitorVars, supervisorVars,
                   lockVars>>

\* the sleep after a connection is over: the next conn, or the next server
ReconnectDelay ==
    /\ client.pc = "sleep"
    /\ client' =
         IF client.conn < Len(servers[client.srv].connections)
         THEN [client EXCEPT !.pc = "connect", !.conn = @ + 1]
         ELSE [client EXCEPT !.pc = "server", !.srv = @ + 1, !.conn = 0]
    /\ UNCHANGED servers
    /\ UNCHANGED <<now, ticks, cache, lastEnrich, discord, monitorVars, supervisorVars,
                   lockVars>>

\* run_sse_loop: start_sse_monitoring has returned; after its sleep the loop
\* calls it again
LoopAgain ==
    /\ client.pc = "returned"
    /\ client' = [client EXCEPT !.pc = "start"]
    /\ UNCHANGED servers
    /\ UNCHANGED <<now, ticks, cache, lastEnrich, discord, monitorVars, supervisorVars,
                   lockVars>>

ClientInit ==
    /\ now = 0
    /\ ticks = 0
    /\ cache = EmptyCache
    /\ lastEnrich = None
    /\ NoDiscord
    /\ NoMonitor
    /\ NoSupervisor
    /\ NoLocks
    /\ servers = <<>>
    /\ client = PlexClient_new

ClientNext ==
    \/ \E u \in {None, Some(Owner)} : StartSseMonitoring(u)
    \/ \E r \in {None} \cup {Some(l) : l \in DiscoveredLists} : GetServers(r)
    \/ ForServer
    \/ \E ok \in BOOLEAN : MonitorServerConnection(ok)
    \/ EventOpen
    \/ ConnectionLost
    \/ ReconnectDelay
    \/ LoopAgain

ClientSpec == ClientInit /\ [][ClientNext]_vars

\* the subscription to server s is open
SubscriptionOpen(s) ==
    client.pc = "stream" /\ client.opened /\ client.srv = s

\* server t is being monitored: its subscription is open or being retried
BeingMonitored(t) ==
    client.pc \in {"connect", "stream", "sleep"} /\ client.srv = t

\* C12: every discovered server that has an access token is monitored
\* concurrently with the others: while the subscription to one server is
\* open, every other server with a token is being monitored too.
C12_AllServersMonitoredConcurrently ==
    \A s, t \in 1..Len(servers) :
        (SubscriptionOpen(s) /\ IsSome(servers[t].access_token))
        => BeingMonitored(t)

-----------------------------------------------------------------------------
(* One monitor: the order of handling *)

\* C13: within one monitor the events are handled one at a time and in the
\* order of arrival: no message is taken from the stream while the handling
\* of the one before (its session fetch, enrichment and emission included) is
\* unfinished, the message being handled is always the last one taken, and
\* the MediaUpdates go out in the order of the messages that caused them.
C13_EventsHandledInArrivalOrder ==
    /\ [](\A k \in 1..(Len(causes) - 1) : causes[k] <= causes[k + 1])
    /\ [](Len(causes) = Len(tx))
    /\ [](IsSome(cur) => Unwrap(cur).n = handled)
    /\ [][\A payload \in Payloads :
             RecvMessage(payload) => (cur = None /\ pc = "read")]_vars

\* two messages, each with its own session fetch and enrichment, each having
\* caused one MediaUpdate
C13_Witness ==
    /\ causes = <<1, 2>>
    /\ fetches = 2
    /\ handled = 2
    /\ pc = "read"

-----------------------------------------------------------------------------
(* The monitor with lookup services that fail in every way *)

LookupPayloads ==
    { Payload(TRUE, Some(PlaySessionState("playing", "A", Some(1000))), Owner),
      Payload(TRUE, Some(PlaySessionState("playing", "B", Some(1000))), Owner),
      Payload(TRUE, Some(PlaySessionState("playing", "C", Some(0))), Owner) }

LookupResponses ==
    { [kind |-> "error", status |-> 0, sessions |-> <<>>] }
    \cup { [kind |-> "ok", status |-> 200, sessions |-> l] :
             l \in { <<MovieA(Some(Owner), Some("playing"), Some(1000))>>,
                     <<EpisodeB(Some(Owner), Some("playing"), Some(1000))>>,
                     <<TrackC(Some("Album"))>> } }

\* what the services may answer to one enrich: every kind of failure on all of
\* them at once (network error, unparsable body, empty result), an anime
\* without image, a cover that is missing or whose HEAD fails, and artwork
\* found by one service.  A response with an error status is read like any
\* other: its body is parsed, and the body of an error has no posters, no
\* data and no releases
LookupNets ==
    { [tmdb |-> [kind |-> k, posters |-> <<>>, backdrops |-> <<>>],
       jikan |-> [kind |-> k, data |-> <<>>],
       musicbrainz |-> [kind |-> k, releases |-> <<>>, cover |-> 0]] :
        k \in {"error", "badjson", "ok"} }
    \cup { [tmdb |-> [kind |-> "error", posters |-> <<>>, backdrops |-> <<>>],
            jikan |-> [kind |-> "ok", data |-> d],
            musicbrainz |-> [kind |-> "ok", releases |-> <<"mbid1">>, cover |-> c]] :
              d \in { <<[mal_id |-> 1, large_image_url |-> None]>> },
              c \in {0, 404} }
    \cup { [tmdb |-> [kind |-> "ok", posters |-> <<"/poster.jpg">>,
                      backdrops |-> <<"/back.jpg">>],
            jikan |-> [kind |-> "ok",
                       data |-> <<[mal_id |-> 1,
                                   large_image_url |-> Some("https://cdn.mal/1l.jpg")]>>],
            musicbrainz |-> [kind |-> "ok", releases |-> <<"mbid1">>, cover |-> 200]] }

LookupNext ==
    \/ \E ok \in BOOLEAN : TryConnection(ok)
    \/ StreamOpen
    \/ \E payload \in LookupPayloads : RecvMessage(payload)
    \/ \E resp \in LookupResponses, item \in ItemResponses : FetchSession(resp, item)
    \/ \E net \in LookupNets : Enrich(net)
    \/ StreamError
    \/ StreamEnd
    \/ Wake
    \/ \E d \in Delays : Tick(d)

LookupSpec == MonitorInit({Some(Owner)}, ConnLists) /\ [][LookupNext]_vars

\* the answer of a lookup service gives no artwork
TmdbFailed(r) == r.kind # "ok" \/ (r.posters = <<>> /\ r.backdrops = <<>>)
JikanFailed(r) ==
    r.kind # "ok" \/ r.data = <<>> \/ Head(r.data).large_image_url = None
MusicBrainzFailed(r) ==
    r.kind # "ok" \/ r.releases = <<>> \/ ~(r.cover >= 200 /\ r.cover <= 399)

AllLookupsFailed(net) ==
    TmdbFailed(net.tmdb) /\ JikanFailed(net.jikan) /\ MusicBrainzFailed(net.musicbrainz)

\* the cache holds no entry younger than the TTL under this key
NoFreshEntry(key) ==
    key \notin DOMAIN cache \/ now - cache[key].timestamp >= CACHE_TTL_SECS * 1000

\* C14: when the session fetch of a new-session event has succeeded, a
\* Playing update is sent whatever the lookup services answer: it carries the
\* fetched record, changed in nothing but artwork and MAL id, and the tracker
\* stores the same record; and when every lookup fails (network error,
\* unparsable body, empty result, cover missing) the record goes out without
\* artwork and 'not found' is what the cache holds for its key.
C14_LookupFailureNeverStopsEmission ==
    [][\A net \in LookupNets :
          Enrich(net) =>
            LET info == Unwrap(Unwrap(cur).info)
                key == build_cache_key(info)
            IN /\ tx' = Append(tx, "Playing")
               /\ IsSome(lastSent') /\ Unwrap(lastSent').type = "Playing"
               /\ [Unwrap(Unwrap(lastSent').info)
                      EXCEPT !.art_url = None, !.mal_id = None] = info
               /\ tracker'.cached_info = Unwrap(lastSent').info
               /\ pc' = "read"
               /\ (AllLookupsFailed(net) /\ NoFreshEntry(key))
                    => /\ Unwrap(Unwrap(lastSent').info).art_url = None
                       /\ key \in DOMAIN cache'
                       /\ cache'[key] = CacheEntry(None, now)]_vars

\* a movie with a tmdb id was sent without artwork: TMDB was asked, gave
\* nothing, and 'not found' is cached under the movie's key
C14_Witness ==
    /\ pc = "read"
    /\ IsSome(lastSent)
    /\ Unwrap(lastSent).type = "Playing"
    /\ Unwrap(Unwrap(lastSent).info).tmdb_id = Some("603")
    /\ Unwrap(Unwrap(lastSent).info).art_url = None
    /\ "tmdb:603:Movie" \in DOMAIN cache
    /\ cache["tmdb:603:Movie"].value = None

-----------------------------------------------------------------------------
(* Malformed event payloads *)

\* the phase strings handle_sse_message knows
KnownStates == {"playing", "paused", "buffering", "stopped"}

\* data that is no SseNotification, a notification without
\* PlaySessionStateNotification, or one whose state is no known phase
Malformed(payload) ==
    \/ ~payload.valid
    \/ payload.play_session_state = None
    \/ Unwrap(payload.play_session_state).state \notin KnownStates

\* C15: a malformed event payload is skipped.  The handler returns having
\* sent nothing and having left the tracker as it was; the connection stays
\* open and the loop is back at the stream, with nothing changed that the
\* handling of the next event depends on (only the count of delivered
\* messages has moved).
C15_MalformedPayloadSkipped ==
    [][\A payload \in Payloads :
          (Malformed(payload) /\ RecvMessage(payload)) =>
             /\ tx' = tx
             /\ lastSent' = lastSent
             /\ tracker' = tracker
             /\ connection_opened'
             /\ AwaitingNext'
             /\ handled' = handled + 1
             /\ UNCHANGED <<username, connections, connIdx, cur, wakeAt, fetches,
                            causes, cache, now>>]_vars

\* the first message started a session and was sent; the second one, with no
\* fetch and nothing sent, left the session tracked and was no event of a
\* known phase: it was malformed, and the stream is being read again
C15_Witness ==
    /\ handled = 2
    /\ causes = <<1>>
    /\ fetches = 1
    /\ has_media(tracker)
    /\ prevEv = None
    /\ connection_opened
    /\ pc = "read"

-----------------------------------------------------------------------------
(* The duplicate check while paused or buffering *)

\* a paused or buffering event for the tracked session that repeats the
\* stored phase and the stored position
RepeatsStoredPosition(payload) ==
    /\ payload.valid
    /\ IsSome(payload.play_session_state)
    /\ LET playing == Unwrap(payload.play_session_state) IN
         /\ playing.state \in {"paused", "buffering"}
         /\ is_same_media(tracker, playing.rating_key)
         /\ IsSome(tracker.last_update)
         /\ Unwrap(tracker.cached_info).state = Unwrap(StateOf(playing.state))
         /\ Unwrap(tracker.cached_info).view_offset_ms
                = UnwrapOr(playing.view_offset, 0)

\* C17: while the stored phase is Paused or Buffering the duplicate check
\* compares the incoming position with the stored one, whatever time has
\* passed: an event repeating the stored phase and position is a duplicate,
\* so handling it sends nothing and leaves the tracker as it was.
C17_PausedDuplicateIgnoresElapsedTime ==
    [][\A payload \in Payloads :
          (RepeatsStoredPosition(payload) /\ RecvMessage(payload)) =>
             /\ tx' = tx
             /\ tracker' = tracker]_vars

-----------------------------------------------------------------------------
(* What a same-session real update leaves alone *)

\* a playing, paused or buffering event for the tracked session whose phase
\* differs from the stored one or whose position is away from the
\* extrapolated one by more than the threshold
RealUpdate(payload) ==
    /\ IsSome(EventOf(payload))
    /\ IsSome(tracker.cached_info)
    /\ IsSome(tracker.last_update)
    /\ Unwrap(tracker.cached_info).rating_key = Some(Event(payload).rating_key)
    /\ \/ Unwrap(tracker.cached_info).state # Unwrap(EventOf(payload)).state
       \/ AbsDiff(Extrapolated, PositionOf(payload)) > SEEK_THRESHOLD_MS

\* a MediaInfo with the two fields update_playback writes blanked
WithoutPlayback(info) == [info EXCEPT !.state = "Playing", !.view_offset_ms = 0]

\* C18: a same-session real update makes no session fetch and no lookup (the
\* handler returns without a network call and the cache is as it was), the
\* stored record changes in nothing but phase and position, the stored
\* server stays and the last update becomes now, and the record sent is the
\* stored one: title, kind, identifiers and artwork are those stored before.
\* At every step that keeps a session identity tracked the media kind stays.
C18_RealUpdateKeepsEnrichedRecord ==
    /\ [][\A payload \in Payloads :
             (RealUpdate(payload) /\ RecvMessage(payload)) =>
                /\ fetches' = fetches
                /\ cache' = cache
                /\ pc' = "read" /\ cur' = cur
                /\ IsSome(tracker'.cached_info)
                /\ WithoutPlayback(Unwrap(tracker'.cached_info))
                       = WithoutPlayback(Unwrap(tracker.cached_info))
                /\ tracker'.source_server = tracker.source_server
                /\ tracker'.last_update = Some(now)
                /\ tx' = Append(tx, "Playing")
                /\ lastSent' = Some(Playing(Unwrap(tracker'.cached_info)))]_vars
    /\ [][(/\ IsSome(tracker.cached_info) /\ IsSome(tracker'.cached_info)
            /\ Unwrap(tracker'.cached_info).rating_key
                  = Unwrap(tracker.cached_info).rating_key)
           => Unwrap(tracker'.cached_info).media_type
                  = Unwrap(tracker.cached_info).media_type]_vars

\* the tracked movie, sent with its artwork when it started, was paused: the
\* second Playing went out with the same artwork and no second fetch
C18_Witness ==
    /\ tx = <<"Playing", "Playing">>
    /\ fetches = 1
    /\ pc = "read"
    /\ IsSome(lastSent)
    /\ Unwrap(lastSent).type = "Playing"
    /\ Unwrap(Unwrap(lastSent).info).state = "Paused"
    /\ IsSome(Unwrap(Unwrap(lastSent).info).art_url)
    /\ prevEv = Some([rating_key |-> "A", state |-> "Paused"])
    /\ tracker.cached_info = Unwrap(lastSent).info

-----------------------------------------------------------------------------
(* The session probe answered with permission denied *)

PermissionDenied(resp) == resp.kind = "status" /\ resp.status = 403

\* the handler returned with nothing sent and nothing stored
EventDropped ==
    /\ pc' = "read"
    /\ cur' = None
    /\ tx' = tx
    /\ tracker' = tracker

\* C19: with an owner username configured, a notification whose session
\* probe is answered with permission denied is taken as the owner's and goes
\* on being handled: the handler does not return with nothing sent and
\* nothing stored.
C19_PermissionDeniedCountsAsOwner ==
    [][\A resp \in SessionResponses, item \in ItemResponses :
          (IsSome(username) /\ PermissionDenied(resp) /\ FetchSession(resp, item))
             => ~EventDropped]_vars

-----------------------------------------------------------------------------
(* The locks: every monitor has its own tracker lock (the RwLock local to   *)
(* try_connection) and all of them share the enricher's cache lock.  A      *)
(* task is followed from one lock request or network call to the next.     *)
(* tokio's RwLock queues its waiters and serves them first come, first      *)
(* served; a reader behind a waiting writer waits too.                      *)

NumMonitors == 2        \* monitors sharing one MetadataEnricher

Monitors == 1..NumMonitors

\* where a task may be suspended on the network, holding its position only
NetworkWaits == {"read", "fetch_session", "tmdb", "jikan", "musicbrainz"}

\* cache.read() is get_cached; cleanup_cache and set_cached take cache.write()
ModeOf(site) == IF site = "get" THEN "read" ELSE "write"

Task(pc_, site, tracker_guard) ==
    [pc |-> pc_, site |-> site, tracker_guard |-> tracker_guard]

HoldsCache(i) == cache_lock.writer = i \/ i \in cache_lock.readers

Queued(i) == \E k \in 1..Len(cache_lock.queue) : cache_lock.queue[k] = i

\* self.cache.read().await / self.cache.write().await is reached
Requested(i) == [cache_lock EXCEPT !.queue = Append(@, i)]

Released_mut_guard_kept_across_lookup(i) ==
    IF tasks[i].site = "get" THEN cache_lock
    ELSE [cache_lock EXCEPT !.writer = IF @ = i THEN 0 ELSE @,
                            !.readers = @ \ {i}]

\* the guard goes out of scope: at the return of cleanup_cache and of
\* get_cached, at the end of the insert statement of set_cached
Released(i) ==
    [cache_lock EXCEPT !.writer = IF @ = i THEN 0 ELSE @,
                       !.readers = @ \ {i}]

\* es.next() gives a message or an error that leads to tracker.write():
\* a stopped notification, a playing/paused/buffering one, or the error of
\* an opened connection
EventArrives(i, ev) ==
    /\ tasks[i].pc = "read"
    /\ tasks' = [tasks EXCEPT ![i] = Task("tracker_wait", ev, FALSE)]
    /\ UNCHANGED cache_lock
    /\ UNCHANGED <<now, ticks, cache, lastEnrich, discord, monitorVars, supervisorVars,
                   clientVars>>

\* tracker.write().await returns the guard
LockTracker(i) ==
    /\ tasks[i].pc = "tracker_wait"
    /\ ~tasks[i].tracker_guard
    /\ tasks' = [tasks EXCEPT ![i].pc = "tracker_held", ![i].tracker_guard = TRUE]
    /\ UNCHANGED cache_lock
    /\ UNCHANGED <<now, ticks, cache, lastEnrich, discord, monitorVars, supervisorVars,
                   clientVars>>

\* tracker_guard is dropped: at the return of the stopped arm, of the error
\* arm, of a same-session update and of the handler after set_media, and at
\* the end of the block before fetch_session for a new session
UnlockTracker(i, same) ==
    /\ tasks[i].pc = "tracker_held"
    /\ tasks' = [tasks EXCEPT ![i] =
                   IF tasks[i].site = "block" /\ ~same
                   THEN Task("fetch_session", "block", FALSE)
                   ELSE Task("read", "none", FALSE)]
    /\ UNCHANGED cache_lock
    /\ UNCHANGED <<now, ticks, cache, lastEnrich, discord, monitorVars, supervisorVars,
                   clientVars>>

\* fetch_session(server_uri).await returns; with a record, enrich begins
\* with cleanup_cache
FetchSessionReturns(i, found) ==
    /\ tasks[i].pc = "fetch_session"
    /\ IF found
       THEN /\ tasks' = [tasks EXCEPT ![i] = Task("cache_wait", "cleanup", FALSE)]
            /\ cache_lock' = Requested(i)
       ELSE /\ tasks' = [tasks EXCEPT ![i] = Task("read", "none", FALSE)]
            /\ UNCHANGED cache_lock
    /\ UNCHANGED <<now, ticks, cache, lastEnrich, discord, monitorVars, supervisorVars,
                   clientVars>>

\* the lock serves the oldest waiter: a writer when nobody holds the lock, a
\* reader when no writer holds it
GrantCache(i) ==
    /\ tasks[i].pc = "cache_wait"
    /\ cache_lock.queue # <<>>
    /\ Head(cache_lock.queue) = i
    /\ cache_lock.writer = 0
    /\ ModeOf(tasks[i].site) = "write" => cache_lock.readers = {}
    /\ cache_lock' = [cache_lock EXCEPT
                        !.queue = Tail(@),
                        !.writer = IF ModeOf(tasks[i].site) = "write" THEN i ELSE @,
                        !.readers = IF ModeOf(tasks[i].site) = "read"
                                    THEN @ \cup {i} ELSE @]
    /\ tasks' = [tasks EXCEPT ![i].pc = "cache_held"]
    /\ UNCHANGED <<now, ticks, cache, lastEnrich, discord, monitorVars, supervisorVars,
                   clientVars>>

\* what follows the guarded operation at a site: after cleanup_cache the
\* read of get_cached; after get_cached the return of enrich on a hit, a
\* lookup, or set_cached(None) at once (no artist or album; no TMDB id and
\* not anime); after the set_cached of try_tmdb_artwork the return when
\* artwork was found, else try_jikan_artwork; after the others the return
NextSteps(site) ==
    IF site = "cleanup" THEN {"get"}
    ELSE IF site = "get"
    THEN {"return", "musicbrainz", "set_musicbrainz", "tmdb", "jikan", "set_jikan"}
    ELSE IF site = "set_tmdb" THEN {"return", "jikan", "set_jikan"}
    ELSE {"return"}

\* the guarded operation is over and its guard dropped; enrich goes on
ReleaseCache(i, next) ==
    /\ tasks[i].pc = "cache_held"
    /\ next \in NextSteps(tasks[i].site)
    /\ IF next = "return"
       THEN /\ tasks' = [tasks EXCEPT ![i] = Task("tracker_wait", "set_media", FALSE)]
            /\ cache_lock' = Released(i)
       ELSE IF next \in NetworkWaits
       THEN /\ tasks' = [tasks EXCEPT ![i] = Task(next, tasks[i].site, FALSE)]
            /\ cache_lock' = Released(i)
       ELSE /\ tasks' = [tasks EXCEPT ![i] = Task("cache_wait", next, FALSE)]
            /\ cache_lock' = [Released(i) EXCEPT !.queue = Append(@, i)]
    /\ UNCHANGED <<now, ticks, cache, lastEnrich, discord, monitorVars, supervisorVars,
                   clientVars>>

\* fetch_tmdb_artwork, fetch_jikan_artwork or fetch_musicbrainz_artwork
\* returns, with or without artwork, and set_cached stores the result
LookupReturns(i) ==
    /\ tasks[i].pc \in {"tmdb", "jikan", "musicbrainz"}
    /\ tasks' = [tasks EXCEPT ![i] =
                   Task("cache_wait",
                        IF tasks[i].pc = "tmdb" THEN "set_tmdb"
                        ELSE IF tasks[i].pc = "jikan" THEN "set_jikan"
                        ELSE "set_musicbrainz",
                        FALSE)]
    /\ cache_lock' = Requested(i)
    /\ UNCHANGED <<now, ticks, cache, lastEnrich, discord, monitorVars, supervisorVars,
                   clientVars>>

LockInit ==
    /\ now = 0
    /\ ticks = 0
    /\ cache = EmptyCache
    /\ lastEnrich = None
    /\ NoDiscord
    /\ NoMonitor
    /\ NoSupervisor
    /\ NoClient
    /\ tasks = [i \in Monitors |-> Task("read", "none", FALSE)]
    /\ cache_lock = [writer |-> 0, readers |-> {}, queue |-> <<>>]

LockNext ==
    \/ \E i \in Monitors, ev \in {"stopped", "block", "error"} : EventArrives(i, ev)
    \/ \E i \in Monitors : LockTracker(i)
    \/ \E i \in Monitors, same \in BOOLEAN : UnlockTracker(i, same)
    \/ \E i \in Monitors, found \in BOOLEAN : FetchSessionReturns(i, found)
    \/ \E i \in Monitors : GrantCache(i)
    \/ \E i \in Monitors, next \in {"return", "get", "musicbrainz", "set_musicbrainz",
                                   "tmdb", "jikan", "set_jikan"} :
          ReleaseCache(i, next)
    \/ \E i \in Monitors : LookupReturns(i)

\* a task that is not suspended on a lock or on the network runs on: the
\* runtime polls it again.  Nothing is assumed of the network: an event may
\* never arrive and a call may never return
LockFairness ==
    \A i \in Monitors :
        /\ WF_vars(LockTracker(i))
        /\ WF_vars(\E same \in BOOLEAN : UnlockTracker(i, same))
        /\ WF_vars(GrantCache(i))
        /\ WF_vars(\E next \in {"return", "get", "musicbrainz", "set_musicbrainz",
                               "tmdb", "jikan", "set_jikan"} : ReleaseCache(i, next))

LockSpec == LockInit /\ [][LockNext]_vars /\ LockFairness

\* the tracker lock and the cache lock are never held, or held and asked
\* for, by one task at the same time
NeverBothLocks ==
    \A i \in Monitors : ~(tasks[i].tracker_guard /\ (HoldsCache(i) \/ Queued(i)))

\* a task suspended on the network holds no lock and waits for none
NoLockAcrossNetworkCall ==
    \A i \in Monitors :
        tasks[i].pc \in NetworkWaits
            => ~tasks[i].tracker_guard /\ ~HoldsCache(i) /\ ~Queued(i)

\* whenever a task waits for a lock, a step that does not depend on the
\* network can be taken: the lock is granted to the oldest waiter, or a
\* holder that is running drops its guard
SomeLockStepPossible ==
    \A i \in Monitors :
        /\ tasks[i].pc = "tracker_wait" => ~tasks[i].tracker_guard
        /\ tasks[i].pc = "cache_wait"
              => \/ \E j \in Monitors : HoldsCache(j) /\ tasks[j].pc = "cache_held"
                 \/ /\ cache_lock.writer = 0 /\ cache_lock.readers = {}
                    /\ cache_lock.queue # <<>>
                    /\ tasks[Head(cache_lock.queue)].pc = "cache_wait"

WaitsForLock(i) == tasks[i].pc \in {"tracker_wait", "cache_wait"}
HoldsLock(i) == tasks[i].pc \in {"tracker_held", "cache_held"}

\* C16: no reachable state of the monitors and the shared cache is a
\* deadlock.  No task ever holds the tracker lock and the cache lock
\* together, no lock is held or awaited while a task waits on a network
\* call, a task waiting for a lock can always be served by steps that do not
\* depend on the network, and every lock request is eventually granted.
C16_NoDeadlockOnLocks ==
    /\ []NeverBothLocks
    /\ []NoLockAcrossNetworkCall
    /\ []SomeLockStepPossible
    /\ \A i \in Monitors : WaitsForLock(i) ~> HoldsLock(i)

\* one monitor writes the cache while the other waits for its turn to
\* write, queued behind nobody else
C16_Witness ==
    /\ cache_lock.writer = 1
    /\ cache_lock.queue = <<2>>
    /\ tasks[1].pc = "cache_held" /\ tasks[1].site = "set_tmdb"
    /\ tasks[2].pc = "cache_wait" /\ tasks[2].site = "cleanup"

-----------------------------------------------------------------------------
(* The monitor fed with positions beyond the duration of the item *)

\* notifications for the movie A, whose duration is 60000 ms
OverrunPayloads ==
    { Payload(TRUE, Some(PlaySessionState("playing", "A", Some(1000))), Owner),
      Payload(TRUE, Some(PlaySessionState("playing", "A", Some(70000))), Owner),
      Payload(TRUE, Some(PlaySessionState("paused", "A", Some(70000))), Owner),
      Payload(TRUE, Some(PlaySessionState("paused", "A", Some(59000))), Owner) }

OverrunResponses ==
    { [kind |-> "ok", status |-> 200, sessions |-> l] :
         l \in { <<MovieA(Some(Owner), Some("playing"), Some(1000))>>,
                 <<MovieA(Some(Owner), Some("playing"), Some(70000))>> } }

OverrunNext ==
    \/ \E ok \in BOOLEAN : TryConnection(ok)
    \/ StreamOpen
    \/ \E payload \in OverrunPayloads : RecvMessage(payload)
    \/ \E resp \in OverrunResponses, item \in ItemResponses : FetchSession(resp, item)
    \/ \E net \in MonitorNets : Enrich(net)
    \/ StreamError
    \/ StreamEnd
    \/ Wake
    \/ \E d \in Delays : Tick(d)

OverrunSpec == MonitorInit({Some(Owner)}, ConnLists) /\ [][OverrunNext]_vars

\* the stored position is beyond the stored duration
PositionOverrun(t) ==
    /\ IsSome(t.cached_info)
    /\ Unwrap(t.cached_info).view_offset_ms > Unwrap(t.cached_info).duration_ms

\* C21: a stored position beyond the record's duration does not outlast the
\* next update of the same session: when the tracker holds such a position
\* and an event of the tracked session updates the stored record, the
\* position stored afterwards is within the duration.
C21_OverrunGoneAfterNextUpdate ==
    [][\A payload \in OverrunPayloads :
          ( /\ PositionOverrun(tracker)
            /\ RealUpdate(payload)
            /\ RecvMessage(payload) )
          => ~PositionOverrun(tracker')]_vars

-----------------------------------------------------------------------------
(* The synthetic Stopped of a stream error *)

\* C22: a stream error sends a Stopped exactly when the connection had
\* reported Open and the tracker holds a record whose source endpoint is the
\* endpoint of the failing connection, and then it sends exactly one; a
\* connection that fails before it has opened sends nothing and clears
\* nothing.
C22_StoppedOnlyForOpenedTrackedConnection ==
    [][StreamError =>
         /\ IF /\ connection_opened
               /\ has_media(tracker)
               /\ tracker.source_server = Some(server_uri)
            THEN /\ tx' = Append(tx, "Stopped")
                 /\ lastSent' = Some(Stopped)
            ELSE /\ tx' = tx
                 /\ lastSent' = lastSent
         /\ ~connection_opened => tracker' = tracker]_vars

\* the connection broke while the session started by the only message was
\* tracked: a Stopped followed the Playing
C22_Witness ==
    /\ tx = <<"Playing", "Stopped">>
    /\ handled = 1
    /\ lastSent = Some(Stopped)
    /\ ~connection_opened
    /\ pc # "read"

-----------------------------------------------------------------------------
(* The order and the pacing of the attempts of start_monitoring *)

\* try_connection has returned from its while loop: the stream gave an error
\* or ended
ConnectionEnds == StreamError \/ StreamEnd

\* C23: when a connection to a candidate endpoint ends, by the end of the
\* stream or by an error, the monitor sleeps the backoff delay: its next
\* attempt is not made before SSE_RECONNECT_DELAY_SECS have passed since the
\* connection ended.
C23_BackoffBeforeNextEndpoint ==
    [][ConnectionEnds => /\ pc' = "sleep"
                         /\ wakeAt' = now + BackoffMs]_vars

\* an attempt is over: the subscription could not be built, or its stream
\* gave an error or ended
AttemptOver == TryConnection(FALSE) \/ ConnectionEnds

\* C24: the candidate endpoints are tried in list order, one at a time.
\* When an attempt is over, whatever ended it, the next endpoint of the list
\* is the next one tried; after the last endpoint the monitor sleeps the
\* backoff delay and then starts again from the first endpoint.  The position
\* in the list never moves otherwise, so no endpoint is skipped.
C24_EndpointsInListOrder ==
    /\ [][AttemptOver =>
            IF connIdx < Len(connections)
            THEN /\ connIdx' = connIdx + 1
                 /\ pc' = "connect"
            ELSE /\ pc' = "sleep"
                 /\ wakeAt' = now + BackoffMs]_vars
    /\ [][(pc = "sleep" /\ pc' # "sleep") =>
            /\ now >= wakeAt
            /\ pc' = "connect"
            /\ connIdx' = 1]_vars
    /\ [][(connIdx' # connIdx /\ pc' # "sleep") => connIdx' = connIdx + 1]_vars
    /\ [](pc \in {"connect", "read", "fetch_session", "enrich"}
            => connIdx \in 1..Len(connections))

\* both endpoints have failed without delivering anything, the backoff delay
\* has passed and the first endpoint is up again
C24_Witness ==
    /\ Len(connections) = 2
    /\ pc = "connect"
    /\ connIdx = 1
    /\ now >= BackoffMs
    /\ handled = 0

-----------------------------------------------------------------------------
(* A session probe that fails *)

\* the places in the list of the sessions the configured user owns
OwnedSessions(resp) ==
    { k \in 1..Len(resp.sessions) : UserMatches(username, resp.sessions[k]) }

\* the request did not go through, its body could not be read, no session
\* is the configured user's, or the first that is has a kind the program
\* does not present
ProbeFailed(resp) ==
    \/ resp.kind \in {"error", "badjson"}
    \/ /\ resp.kind = "ok"
       /\ \/ OwnedSessions(resp) = {}
          \/ LET first == CHOOSE k \in OwnedSessions(resp) :
                              \A j \in OwnedSessions(resp) : k <= j
             IN resp.sessions[first].media_type \notin {"movie", "episode", "track"}

\* C25: when the session probe made for a new-session event fails (network
\* error, unparsable body, unsupported kind, no session of the owner) the
\* event is dropped: nothing is sent, the tracker and the cache are as they
\* were, the connection stays open and the stream is read again.  (After a
\* failed probe the item-metadata request is not made.)
C25_FailedProbeDropsEvent ==
    [][\A resp \in SessionResponses :
          (pc = "fetch_session" /\ ProbeFailed(resp) /\ FetchSession(resp, None)) =>
             /\ tx' = tx
             /\ lastSent' = lastSent
             /\ tracker' = tracker
             /\ cache' = cache
             /\ connection_opened' /\ connection_opened
             /\ pc' = "read"
             /\ cur' = None]_vars

\* a session was tracked and sent; the probe for the next event, of another
\* item, failed: nothing more was sent and the first session is still tracked
C25_Witness ==
    /\ handled = 2
    /\ fetches = 2
    /\ causes = <<1>>
    /\ tx = <<"Playing">>
    /\ has_media(tracker)
    /\ connection_opened
    /\ pc = "read"

-----------------------------------------------------------------------------
(* enrich called with records of animation *)

AnimeItem == Some([guids |-> <<Guid("tmdb", "603")>>, genres |-> <<"Animation">>])

AnimeInfos ==
    { \* an episode whose show has a tmdb id and is tagged Animation
      enrich_external_ids(
          Unwrap(parse_session(EpisodeB(Some(Owner), Some("playing"), Some(1000)))),
          AnimeItem),
      \* an episode without tmdb id, tagged Anime
      [Unwrap(parse_session(EpisodeB(Some(Owner), Some("playing"), Some(1000))))
          EXCEPT !.genres = <<"Anime">>],
      \* a movie with a tmdb id and no such tag
      enrich_external_ids(
          Unwrap(parse_session(MovieA(Some(Owner), Some("playing"), Some(1000)))),
          WithIds) }

\* TMDB with and without artwork, Jikan with and without a result
AnimeNets ==
    { [tmdb |-> t, jikan |-> j,
       musicbrainz |-> [kind |-> "error", releases |-> <<>>, cover |-> 0]] :
        t \in { [kind |-> "ok", posters |-> <<>>, backdrops |-> <<>>],
                [kind |-> "ok", posters |-> <<"/poster.jpg">>,
                 backdrops |-> <<"/back.jpg">>] },
        j \in { [kind |-> "ok", data |-> <<>>],
                [kind |-> "ok",
                 data |-> <<[mal_id |-> 1,
                             large_image_url |-> Some("https://cdn.mal/1l.jpg")]>>] } }

AnimeNext ==
    \/ \E info \in AnimeInfos, net \in AnimeNets : EnrichCall(info, net)
    \/ \E d \in CacheDelays : Elapse(d)

AnimeSpec == CacheInit /\ [][AnimeNext]_vars

\* C26: on a cache miss for a movie or an episode tagged anime or animation,
\* the anime service is asked, whether or not the primary service is asked
\* too, and when the anime service has a result with an image, that image is
\* the artwork of the record and what the cache holds for its key, with the
\* MAL id, even if the primary service returned artwork as well.
C26_AnimeResultPreferred ==
    [][\A info \in AnimeInfos, net \in AnimeNets :
          ( /\ is_anime(info)
            /\ NoFreshEntry(build_cache_key(info))
            /\ EnrichCall(info, net) )
          => /\ \E k \in 1..Len(Unwrap(lastEnrich').calls) :
                   Unwrap(lastEnrich').calls[k] = "jikan"
             /\ ~JikanFailed(net.jikan) =>
                  /\ Unwrap(lastEnrich').art_url
                        = Head(net.jikan.data).large_image_url
                  /\ cache'[build_cache_key(info)].value
                        = Some(CachedArtwork(
                                 Unwrap(Head(net.jikan.data).large_image_url),
                                 Some(ToString(Head(net.jikan.data).mal_id))))]_vars

-----------------------------------------------------------------------------
(* The sweep of the cache *)

\* C27: the cleanup_cache that every enrich begins with leaves the cache as
\* it is while it holds fewer than CACHE_CLEANUP_THRESHOLD entries; at or
\* above the threshold it removes the entries older than the TTL and keeps,
\* unchanged, those younger than the TTL.  (The entry of the record's own key
\* is the one enrich may write afterwards.)
C27_SweepRemovesExactlyExpired ==
    [][\A info \in CacheInfos, net \in CacheNets :
          EnrichCall(info, net) =>
             \A k \in DOMAIN cache \ {build_cache_key(info)} :
                IF Cardinality(DOMAIN cache) < CACHE_CLEANUP_THRESHOLD
                THEN k \in DOMAIN cache' /\ cache'[k] = cache[k]
                ELSE /\ now - cache[k].timestamp < CACHE_TTL_SECS * 1000
                          => k \in DOMAIN cache' /\ cache'[k] = cache[k]
                     /\ now - cache[k].timestamp > CACHE_TTL_SECS * 1000
                          => k \notin DOMAIN cache']_vars

\* a sweep has removed the 99 entries that had outlived the TTL and kept the
\* one that was fresh; the enrich that swept has added its own
C27_Witness ==
    /\ IsSome(lastEnrich)
    /\ Unwrap(lastEnrich).swept = CACHE_CLEANUP_THRESHOLD - 1
    /\ Cardinality(DOMAIN cache) = 2
    /\ \A k \in DOMAIN cache : cache[k].timestamp = now

-----------------------------------------------------------------------------
(* Monitors that enrich records of one key at the same time.  Each task     *)
(* runs enrich once, for a movie with tmdb id 603 that is no anime, and is   *)
(* followed from one cache operation or lookup to the next; the operations   *)
(* act on the cache itself.                                                  *)

RaceInfo ==
    enrich_external_ids(
        Unwrap(parse_session(MovieA(Some(Owner), Some("playing"), Some(1000)))),
        WithIds)

RaceKey == build_cache_key(RaceInfo)

RaceTask(pc_, site, result, fetched) ==
    [pc |-> pc_, site |-> site, result |-> result, fetched |-> fetched]

\* enricher.enrich(&mut info).await is called: cleanup_cache asks for the lock
RaceEnrich(i) ==
    /\ tasks[i].pc = "idle"
    /\ tasks' = [tasks EXCEPT ![i].pc = "cache_wait", ![i].site = "cleanup"]
    /\ cache_lock' = Requested(i)
    /\ UNCHANGED <<now, ticks, cache, lastEnrich, discord, monitorVars, supervisorVars,
                   clientVars>>

\* cleanup_cache sweeps and returns; get_cached asks for the lock
RaceCleanup(i) ==
    /\ tasks[i].pc = "cache_held"
    /\ tasks[i].site = "cleanup"
    /\ cache' = cleanup_cache(cache, now)
    /\ tasks' = [tasks EXCEPT ![i].pc = "cache_wait", ![i].site = "get"]
    /\ cache_lock' = [Released(i) EXCEPT !.queue = Append(@, i)]
    /\ UNCHANGED <<now, ticks, lastEnrich, discord, monitorVars, supervisorVars, clientVars>>

\* get_cached reads and returns: on a hit enrich returns with what the cache
\* held, on a miss try_tmdb_artwork starts its request
RaceGet(i) ==
    /\ tasks[i].pc = "cache_held"
    /\ tasks[i].site = "get"
    /\ LET cached == get_cached(cache, RaceKey, now)
       IN tasks' = [tasks EXCEPT ![i] =
                      IF IsSome(cached)
                      THEN RaceTask("done", "get", Unwrap(cached), FALSE)
                      ELSE RaceTask("tmdb", "get", None, FALSE)]
    /\ cache_lock' = Released(i)
    /\ UNCHANGED <<now, ticks, cache, lastEnrich, discord, monitorVars, supervisorVars,
                   clientVars>>

\* fetch_tmdb_artwork returns; set_cached asks for the lock
RaceLookupReturns(i, resp) ==
    /\ tasks[i].pc = "tmdb"
    /\ LET r == fetch_tmdb_artwork(Unwrap(RaceInfo.tmdb_id), RaceInfo.media_type,
                                   resp)[1]
       IN tasks' = [tasks EXCEPT ![i] =
                      RaceTask("cache_wait", "set_tmdb",
                               IF IsSome(r) THEN Some(CachedArtwork(Unwrap(r), None))
                               ELSE None,
                               TRUE)]
    /\ cache_lock' = Requested(i)
    /\ UNCHANGED <<now, ticks, cache, lastEnrich, discord, monitorVars, supervisorVars,
                   clientVars>>

\* set_cached inserts and returns.  After try_tmdb_artwork: with artwork
\* enrich returns, without it try_jikan_artwork, the record being no anime,
\* calls set_cached(None); after that one enrich returns
RaceSet(i) ==
    /\ tasks[i].pc = "cache_held"
    /\ tasks[i].site \in {"set_tmdb", "set_jikan"}
    /\ cache' = set_cached(cache, RaceKey, tasks[i].result, now)
    /\ IF tasks[i].site = "set_tmdb" /\ tasks[i].result = None
       THEN /\ tasks' = [tasks EXCEPT ![i].pc = "cache_wait", ![i].site = "set_jikan"]
            /\ cache_lock' = [Released(i) EXCEPT !.queue = Append(@, i)]
       ELSE /\ tasks' = [tasks EXCEPT ![i].pc = "done"]
            /\ cache_lock' = Released(i)
    /\ UNCHANGED <<now, ticks, lastEnrich, discord, monitorVars, supervisorVars, clientVars>>

RaceInit ==
    /\ now = 0
    /\ ticks = 0
    /\ cache = EmptyCache
    /\ lastEnrich = None
    /\ NoDiscord
    /\ NoMonitor
    /\ NoSupervisor
    /\ NoClient
    /\ tasks = [i \in Monitors |-> RaceTask("idle", "none", None, FALSE)]
    /\ cache_lock = [writer |-> 0, readers |-> {}, queue |-> <<>>]

RaceNext ==
    \/ \E i \in Monitors : RaceEnrich(i)
    \/ \E i \in Monitors : GrantCache(i)
    \/ \E i \in Monitors : RaceCleanup(i)
    \/ \E i \in Monitors : RaceGet(i)
    \/ \E i \in Monitors, resp \in TmdbResponses : RaceLookupReturns(i, resp)
    \/ \E i \in Monitors : RaceSet(i)

RaceSpec == RaceInit /\ [][RaceNext]_vars

\* every enrich has returned
AllReturned == \A i \in Monitors : tasks[i].pc = "done"

\* C28: the cache lock is held for one map operation at a time and never
\* while a lookup is in flight: a task waiting for a lookup service neither
\* holds the lock nor waits for it, a writer holds it alone, and the cache
\* changes only in the step of the task that holds it for writing.  Tasks
\* that miss on the same key may each make the lookup; when all have
\* returned the cache holds one entry, that of the key, and its value is the
\* result of one of the tasks that made the lookup.
C28_LockPerOperationAndBenignRace ==
    /\ [](\A i \in Monitors :
             tasks[i].pc = "tmdb" => ~HoldsCache(i) /\ ~Queued(i))
    /\ [](cache_lock.writer # 0 => cache_lock.readers = {})
    /\ [][cache' # cache =>
            /\ cache_lock.writer # 0
            /\ tasks[cache_lock.writer].pc = "cache_held"
            /\ tasks'[cache_lock.writer].pc # "cache_held"]_vars
    /\ [](AllReturned =>
            /\ DOMAIN cache = {RaceKey}
            /\ \E i \in Monitors :
                  tasks[i].fetched /\ cache[RaceKey].value = tasks[i].result)

\* two tasks missed on the key and both asked TMDB: one found a poster, the
\* other nothing; both have returned and the cache holds the poster
C28_Witness ==
    /\ AllReturned
    /\ tasks[1].fetched /\ tasks[2].fetched
    /\ tasks[1].result = None
    /\ IsSome(tasks[2].result)
    /\ cache[RaceKey].value = tasks[2].result

-----------------------------------------------------------------------------
(* The cache keys of different records *)

TrackOf(artist, album) ==
    [Unwrap(parse_session(TrackC(Some(album)))) EXCEPT !.artist = Some(artist)]

\* the records enrich is called with: a movie and an episode with one tmdb
\* id, a movie and an episode without, and tracks whose artist or album has
\* a colon in its name
KeyInfos ==
    { RaceInfo,
      enrich_external_ids(
          Unwrap(parse_session(EpisodeB(Some(Owner), Some("playing"), Some(1000)))),
          WithIds),
      Unwrap(parse_session(MovieA(Some(Owner), Some("playing"), Some(1000)))),
      Unwrap(parse_session(EpisodeB(Some(Owner), Some("playing"), Some(1000)))),
      TrackOf("Artist", "Live"),
      TrackOf("Artist", "Vol: 2"),
      TrackOf("Artist:Vol", " 2") }

\* enricher.enrich(&mut info).await; the call is remembered with its record
KeyEnrich(info, net) ==
    /\ LET e == enrich(info, cache, net, now)
       IN /\ cache' = e.cache
          /\ lastEnrich' = Some([info |-> info, key |-> build_cache_key(info),
                                 hit |-> e.hit])
    /\ UNCHANGED <<now, ticks, discord, monitorVars, supervisorVars, clientVars, lockVars>>

KeyInit == CacheInit /\ cache = EmptyCache

KeyNext ==
    \/ \E info \in KeyInfos, net \in MonitorNets : KeyEnrich(info, net)
    \/ \E d \in CacheDelays : Elapse(d)

KeySpec == KeyInit /\ [][KeyNext]_vars

\* the rule that gives a record its key: the external id with the kind when
\* the id is known, else title and year for movies and episodes, else
\* artist and album
KeyFields(info) ==
    IF IsSome(info.tmdb_id)
    THEN <<"external", info.tmdb_id, info.media_type>>
    ELSE IF info.media_type \in {"Movie", "Episode"}
    THEN <<"title",
           IF info.media_type = "Episode" THEN UnwrapOr(info.show_name, info.title)
           ELSE info.title,
           info.year>>
    ELSE <<"track", info.artist, info.album>>

\* C29: two records have the same cache key only when the same rule applies
\* to both and they agree on the fields of that rule: a call of enrich whose
\* record has the key of the call before it has a record that agrees with
\* the earlier one on those fields.
C29_SameKeyOnlyForSameFields ==
    [][\A info \in KeyInfos, net \in MonitorNets :
          ( /\ IsSome(lastEnrich)
            /\ KeyEnrich(info, net)
            /\ Unwrap(lastEnrich').key = Unwrap(lastEnrich).key )
          => KeyFields(info) = KeyFields(Unwrap(lastEnrich).info)]_vars

-----------------------------------------------------------------------------
(* The three fields of the tracker *)

\* C30: at every moment of a connection the tracker has its record, its
\* source endpoint and its last-update time all set or all unset, and when
\* they are set a connection is being read and the source endpoint is the
\* endpoint of that connection.
C30_TrackerFieldsSetTogether ==
    /\ \/ /\ IsSome(tracker.cached_info)
          /\ IsSome(tracker.source_server)
          /\ IsSome(tracker.last_update)
       \/ /\ tracker.cached_info = None
          /\ tracker.source_server = None
          /\ tracker.last_update = None
    /\ IsSome(tracker.source_server) =>
          /\ pc \in {"read", "fetch_session", "enrich"}
          /\ connIdx \in 1..Len(connections)
          /\ tracker.source_server = Some(connections[connIdx])

\* the first endpoint failed; a session is tracked on the second one
C30_Witness ==
    /\ Len(connections) = 2
    /\ connIdx = 2
    /\ pc = "read"
    /\ IsSome(tracker.cached_info)
    /\ tracker.source_server = Some("https://plex.example:443")
    /\ IsSome(tracker.last_update)

-----------------------------------------------------------------------------
(* The order of Playing and Stopped in the output of one monitor *)

\* a step that sends a Stopped
SendsStopped == Len(tx') > Len(tx) /\ tx'[Len(tx')] = "Stopped"

\* C31: in the output of one monitor every Stopped comes directly after a
\* Playing, so a Stopped is never the first update and never follows another
\* Stopped; and the Playing before it is of the same connection: when the
\* Stopped is sent, the tracker of the connection being read holds, with this
\* connection's endpoint as its source, the very record that Playing carried,
\* and the Stopped empties the tracker.
C31_StoppedFollowsPlayingOfSameConnection ==
    /\ [](\A i \in 1..Len(tx) :
              tx[i] = "Stopped" => i > 1 /\ tx[i - 1] = "Playing")
    /\ [][SendsStopped =>
             /\ pc = "read"
             /\ tx # <<>>
             /\ tx[Len(tx)] = "Playing"
             /\ IsSome(tracker.cached_info)
             /\ tracker.source_server = Some(connections[connIdx])
             /\ lastSent = Some(Playing(Unwrap(tracker.cached_info)))
             /\ tx' = Append(tx, "Stopped")
             /\ tracker' = PlaybackTracker_new]_vars

\* a session was reported and stopped on the first connection, the connection
\* then ended without a second Stopped, and the second endpoint is being read
C31_Witness ==
    /\ tx = <<"Playing", "Stopped">>
    /\ handled = 2
    /\ connIdx = 2
    /\ pc = "read"
    /\ connection_opened

-----------------------------------------------------------------------------
(* No tracker state from one connection to the next *)

\* C32: every connection attempt starts with an empty tracker: none is held
\* between attempts and try_connection creates an empty one.  A playing,
\* paused or buffering event that meets an empty tracker, as the first such
\* event of a connection does, is a new session: nothing is sent or stored by
\* the step, the handler goes on to fetch_session with this event, and the
\* request is made, whatever was tracked on the connection before.
C32_NewConnectionStartsWithEmptyTracker ==
    /\ [](pc \in {"connect", "sleep"} => tracker = PlaybackTracker_new)
    /\ [][TryConnection(TRUE) => tracker' = PlaybackTracker_new]_vars
    /\ [][\A payload \in RotationPayloads :
             ( /\ tracker = PlaybackTracker_new
               /\ EventOf(payload) # None
               /\ RecvMessage(payload) )
             => /\ pc' = "fetch_session"
                /\ cur' = Some([payload |-> payload, info |-> None,
                                n |-> handled'])
                /\ tx' = tx
                /\ tracker' = tracker]_vars
    /\ [][pc = "fetch_session" => fetches' = fetches + 1]_vars

\* session A was tracked and reported on the first connection, which then
\* ended; the second connection has received a playing event for A again and
\* is about to fetch the session a second time
C32_Witness ==
    /\ connIdx = 2
    /\ pc = "fetch_session"
    /\ handled = 2
    /\ fetches = 1
    /\ tx = <<"Playing">>
    /\ tracker = PlaybackTracker_new
    /\ Unwrap(cur).payload.play_session_state
          = Some(PlaySessionState("playing", "A", Some(1000)))

-----------------------------------------------------------------------------
(* The identity stored for a new session *)

\* C33: when the handling of a new-session event with identity K ends with a
\* Playing sent, the record stored in the tracker has identity K; and an
\* event that follows at once with identity K, the same phase and a position
\* within the threshold of the extrapolated one causes no session fetch and
\* sends nothing.
C33_StoredIdentityIsEventIdentity ==
    [][/\ \A net \in MonitorNets :
             Enrich(net)
             => /\ tx' = Append(tx, "Playing")
                /\ IsSome(tracker'.cached_info)
                /\ Unwrap(tracker'.cached_info).rating_key
                       = Some(Event(Unwrap(cur).payload).rating_key)
       /\ \A payload \in Payloads :
             (RecvMessage(payload) /\ Repeats(payload))
             => /\ pc' = "read"
                /\ tx' = tx]_vars

-----------------------------------------------------------------------------
(* The phase of what is stored and sent *)

ActivePhases == {"Playing", "Paused", "Buffering"}

\* C34: the record in the tracker and the record of every Playing update sent
\* have the phase Playing, Paused or Buffering, never Stopped.
C34_NoStoppedPhaseStoredOrSent ==
    /\ IsSome(tracker.cached_info)
          => Unwrap(tracker.cached_info).state \in ActivePhases
    /\ (IsSome(lastSent) /\ Unwrap(lastSent).type = "Playing")
          => Unwrap(lastSent).info.state \in ActivePhases

-----------------------------------------------------------------------------
(* A duplicate changes nothing *)

\* the handler classifies the event of this payload as a duplicate: same
\* identity and phase as the stored record, position within the threshold of
\* the stored position plus the time since the last stored update
ClassifiedDuplicate(payload) ==
    /\ EventOf(payload) # None
    /\ IsSome(tracker.cached_info)
    /\ Unwrap(tracker.cached_info).rating_key = Some(Event(payload).rating_key)
    /\ Unwrap(tracker.cached_info).state = Unwrap(EventOf(payload)).state
    /\ AbsDiff(Extrapolated, PositionOf(payload)) <= SEEK_THRESHOLD_MS

\* C35: an event classified as a duplicate leaves the whole tracker as it
\* was, its phase, its position and its last-update time, and sends nothing;
\* so the record a later event is compared with is always the one of the last
\* update sent, never that of an event received since.
C35_DuplicateLeavesTrackerUnchanged ==
    /\ [][\A payload \in Payloads :
             (pc = "read" /\ ClassifiedDuplicate(payload) /\ RecvMessage(payload))
             => /\ tracker' = tracker
                /\ tx' = tx
                /\ lastSent' = lastSent
                /\ pc' = "read"]_vars
    /\ [](IsSome(tracker.cached_info)
             => lastSent = Some(Playing(Unwrap(tracker.cached_info))))

\* playing/A/1000 was stored and sent at time 0; two seconds later a second
\* playing event for A was handled as a duplicate
C35_Witness ==
    /\ handled = 2
    /\ pc = "read"
    /\ now = 2000
    /\ tx = <<"Playing">>
    /\ fetches = 1
    /\ prevEv = Some([rating_key |-> "A", state |-> "Playing"])
    /\ IsSome(tracker.cached_info)
    /\ tracker.last_update = Some(0)
    /\ Unwrap(tracker.cached_info).view_offset_ms = 1000

-----------------------------------------------------------------------------
(* enrich called again for the same record.  The records are as parse_session *)
(* and enrich_external_ids leave them: no artwork, no MAL id.                 *)

AgainInfos ==
    { \* a movie with a tmdb id
      RaceInfo,
      \* an episode with a tmdb id whose series is tagged Animation
      enrich_external_ids(
          Unwrap(parse_session(EpisodeB(Some(Owner), Some("playing"), Some(1000)))),
          AnimeItem),
      \* an episode without tmdb id, tagged Anime
      [Unwrap(parse_session(EpisodeB(Some(Owner), Some("playing"), Some(1000))))
          EXCEPT !.genres = <<"Anime">>],
      \* a track with artist and album
      Unwrap(parse_session(TrackC(Some("Album")))) }

\* no service has a result; only Jikan has one; every service has one
AgainNets ==
    { n \in AnimeNets : n.tmdb.posters = <<>> } \cup MonitorNets

\* enricher.enrich(&mut info).await; the call is remembered with the record
\* it was given and the record it left
EnrichAgain(info, net) ==
    /\ LET e == enrich(info, cache, net, now)
       IN /\ cache' = e.cache
          /\ lastEnrich' = Some([info |-> info, key |-> build_cache_key(info),
                                 hit |-> e.hit, out |-> e.info])
    /\ UNCHANGED <<now, ticks, discord, monitorVars, supervisorVars, clientVars, lockVars>>

AgainNext ==
    \/ \E info \in AgainInfos, net \in AgainNets : EnrichAgain(info, net)
    \/ \E d \in CacheDelays : Elapse(d)

AgainSpec == KeyInit /\ [][AgainNext]_vars

\* C36: when enrich is called for a record whose key has an entry within the
\* TTL, left there by the call before, the call is a hit and gives the record
\* the artwork URL and the MAL id that the call before gave to its record;
\* and when the two calls are for the same record, the two enriched records
\* are identical.  This holds for results found and not found, of TMDB, of
\* Jikan and of MusicBrainz.
C36_HitGivesWhatTheMissGave ==
    [][\A info \in AgainInfos :
          ( /\ IsSome(lastEnrich)
            /\ IsSome(lastEnrich')
            /\ Unwrap(lastEnrich').info = info
            /\ Unwrap(lastEnrich).key = build_cache_key(info)
            /\ build_cache_key(info) \in DOMAIN cache
            /\ now - cache[build_cache_key(info)].timestamp < TtlMs
            /\ \E net \in AgainNets : EnrichAgain(info, net) )
          => /\ Unwrap(lastEnrich').hit
             /\ Unwrap(lastEnrich').out.art_url = Unwrap(lastEnrich).out.art_url
             /\ Unwrap(lastEnrich').out.mal_id = Unwrap(lastEnrich).out.mal_id
             /\ cache' = cache
             /\ Unwrap(lastEnrich).info = info
                   => Unwrap(lastEnrich').out = Unwrap(lastEnrich).out]_vars

\* two seconds after its first enrichment the anime episode was enriched
\* again, from the cache, and has the Jikan image and the MAL id
C36_Witness ==
    /\ IsSome(lastEnrich)
    /\ Unwrap(lastEnrich).hit
    /\ now = 2000
    /\ Unwrap(lastEnrich).key \in DOMAIN cache
    /\ cache[Unwrap(lastEnrich).key].timestamp = 0
    /\ Unwrap(lastEnrich).out.mal_id = Some("1")
    /\ Unwrap(lastEnrich).out.art_url = Some("https://cdn.mal/1l.jpg")

-----------------------------------------------------------------------------
(* plex.rs: PlexClient::monitor_server_connection and its handle_sse_message, *)
(* the older monitor that main.rs runs.  Here client holds the place of the   *)
(* task (pc), its username, the tracker local to monitor_server_connection,   *)
(* whether the stream reported Open, and how many connections were made and   *)
(* messages taken; media_rx is the Option<MediaInfo> channel it sends on.     *)

MaxAttempts == 2        \* connections made in one run

\* plex.rs PlaybackTracker::new
Client_PlaybackTracker_new ==
    [rating_key |-> None, state |-> None, view_offset |-> None]

\* plex.rs PlaybackTracker::is_duplicate
Client_is_duplicate(t, info) ==
    IF t.rating_key # info.rating_key \/ t.state # Some(info.state) THEN FALSE
    ELSE IF t.view_offset = None THEN FALSE
    ELSE AbsDiff(Unwrap(t.view_offset), info.view_offset_ms) <= SEEK_THRESHOLD_MS

\* plex.rs PlaybackTracker::update
Client_update(t, info) ==
    [rating_key |-> info.rating_key, state |-> Some(info.state),
     view_offset |-> Some(info.view_offset_ms)]

\* plex.rs PlaybackTracker::clear
Client_clear(t) == Client_PlaybackTracker_new

\* plex.rs parse_session: its MediaInfo has no key field
Client_parse_session(meta) ==
    LET p == parse_session(meta) IN
    IF p = None THEN None
    ELSE Some([f \in DOMAIN Unwrap(p) \ {"key"} |-> Unwrap(p)[f]])

\* grandparent_key.take(), then the ids and genres of the show
enrich_episode_metadata(info, item) ==
    IF info.grandparent_key = None THEN info
    ELSE LET taken == [info EXCEPT !.grandparent_key = None] IN
         IF item = None THEN taken
         ELSE LET ids == ScanGuids(Unwrap(item).guids, info.imdb_id, info.tmdb_id)
              IN [taken EXCEPT !.imdb_id = ids[1], !.tmdb_id = ids[2],
                               !.genres = Unwrap(item).genres]

\* plex.rs fetch_session
Client_fetch_session(target, resp, item) ==
    IF resp.kind = "error" THEN None
    ELSE IF ~(resp.status >= 200 /\ resp.status <= 299) THEN None
    ELSE IF resp.kind = "badjson" THEN None
    ELSE LET meta == Find(target, resp.sessions) IN
         IF meta = None THEN None
         ELSE LET info == Client_parse_session(Unwrap(meta)) IN
              IF info = None THEN None
              ELSE IF Unwrap(info).media_type = "Episode"
              THEN Some(enrich_episode_metadata(Unwrap(info), item))
              ELSE info

\* what enrich_metadata may leave in the record: art_url and mal_id.  Its
\* cache is not read by the monitor and is left out here
ArtworkFound ==
    { [art_url |-> None, mal_id |-> None],
      [art_url |-> Some("https://image.tmdb.org/t/p/w500/poster.jpg"),
       mal_id |-> None],
      [art_url |-> Some("https://cdn.mal/1l.jpg"), mal_id |-> Some("1")] }

OlderPayloads ==
    { Payload(TRUE, Some(PlaySessionState("playing", "A", Some(1000))), Owner),
      Payload(TRUE, Some(PlaySessionState("stopped", "A", Some(3100))), Owner),
      Payload(TRUE, None, Owner),
      Payload(FALSE, None, Owner) }

OlderResponses ==
    { r \in SessionResponses :
         \/ r.kind = "error"
         \/ r.sessions = <<MovieA(Some(Owner), Some("playing"), Some(1000))>>
         \/ r.sessions = <<EpisodeB(Some(Owner), Some("playing"), Some(1000))>> }

\* monitor_server_connection up to its while loop; ok = the EventSource
\* could be built
OlderConnect(ok) ==
    /\ client.pc = "connect"
    /\ client.attempts < MaxAttempts
    /\ client' = IF ok
                 THEN [client EXCEPT !.pc = "stream", !.opened = FALSE,
                                     !.attempts = @ + 1,
                                     !.tracker = Client_PlaybackTracker_new]
                 ELSE [client EXCEPT !.pc = "returned", !.attempts = @ + 1]
    /\ UNCHANGED <<servers, supervisorVars>>
    /\ UNCHANGED <<now, ticks, cache, lastEnrich, discord, monitorVars, lockVars>>

\* es.next() = Some(Ok(Event::Open))
OlderOpen ==
    /\ client.pc = "stream"
    /\ ~client.opened
    /\ client' = [client EXCEPT !.opened = TRUE]
    /\ UNCHANGED <<servers, supervisorVars>>
    /\ UNCHANGED <<now, ticks, cache, lastEnrich, discord, monitorVars, lockVars>>

\* es.next() = Some(Ok(Event::Message(msg))): handle_sse_message up to
\* fetch_session, or to its return
OlderMessage(payload) ==
    /\ client.pc = "stream"
    /\ client.opened
    /\ client.handled < MaxMsgs
    /\ LET c == [client EXCEPT !.handled = @ + 1] IN
       IF ~payload.valid \/ payload.play_session_state = None
       THEN client' = c /\ UNCHANGED media_rx
       ELSE IF Unwrap(payload.play_session_state).state = "stopped"
       THEN IF IsSome(client.tracker.rating_key)
            THEN /\ client' = [c EXCEPT !.tracker = Client_clear(client.tracker)]
                 /\ media_rx' = Append(media_rx, None)
            ELSE client' = c /\ UNCHANGED media_rx
       ELSE /\ client' = [c EXCEPT !.pc = "fetch_session"]
            /\ UNCHANGED media_rx
    /\ UNCHANGED <<servers, sse_cancel_token, cancelled, app_cancel_token, loops,
                   received, media_sent>>
    /\ UNCHANGED <<now, ticks, cache, lastEnrich, discord, monitorVars, lockVars>>

\* Self::fetch_session(..).await and the rest of handle_sse_message
OlderFetchSession(resp, item, art) ==
    /\ client.pc = "fetch_session"
    /\ LET c == [client EXCEPT !.pc = "stream"]
           info == Client_fetch_session(client.username, resp, item)
       IN IF info = None
          THEN client' = c /\ UNCHANGED media_rx
          ELSE IF Client_is_duplicate(client.tracker, Unwrap(info))
          THEN /\ client' = [c EXCEPT !.tracker.view_offset =
                                          Some(Unwrap(info).view_offset_ms)]
               /\ UNCHANGED media_rx
          ELSE /\ client' = [c EXCEPT !.tracker =
                                          Client_update(client.tracker, Unwrap(info))]
               /\ media_rx' = Append(media_rx,
                                  Some([Unwrap(info) EXCEPT
                                           !.art_url = art.art_url,
                                           !.mal_id = art.mal_id]))
    /\ UNCHANGED <<servers, sse_cancel_token, cancelled, app_cancel_token, loops,
                   received, media_sent>>
    /\ UNCHANGED <<now, ticks, cache, lastEnrich, discord, monitorVars, lockVars>>

\* es.next() = Some(Err(e))
OlderError ==
    /\ client.pc = "stream"
    /\ media_rx' = Append(media_rx, None)
    /\ client' = [client EXCEPT !.pc = "returned", !.opened = FALSE,
                                !.tracker = Client_PlaybackTracker_new]
    /\ UNCHANGED <<servers, sse_cancel_token, cancelled, app_cancel_token, loops,
                   received, media_sent>>
    /\ UNCHANGED <<now, ticks, cache, lastEnrich, discord, monitorVars, lockVars>>

\* es.next() = None
OlderEnd ==
    /\ client.pc = "stream"
    /\ client' = [client EXCEPT !.pc = "returned", !.opened = FALSE,
                                !.tracker = Client_PlaybackTracker_new]
    /\ UNCHANGED <<servers, supervisorVars>>
    /\ UNCHANGED <<now, ticks, cache, lastEnrich, discord, monitorVars, lockVars>>

\* the sleep of start_sse_monitoring is over and the next connection is tried
OlderNextConnection ==
    /\ client.pc = "returned"
    /\ client' = [client EXCEPT !.pc = "connect"]
    /\ UNCHANGED <<servers, supervisorVars>>
    /\ UNCHANGED <<now, ticks, cache, lastEnrich, discord, monitorVars, lockVars>>

OlderInit ==
    /\ now = 0
    /\ ticks = 0
    /\ cache = EmptyCache
    /\ lastEnrich = None
    /\ NoDiscord
    /\ NoMonitor
    /\ NoSupervisor
    /\ NoLocks
    /\ servers = <<>>
    /\ client = [pc |-> "connect", username |-> Some(Owner), opened |-> FALSE,
                 tracker |-> Client_PlaybackTracker_new,
                 attempts |-> 0, handled |-> 0]

OlderNext ==
    \/ \E ok \in BOOLEAN : OlderConnect(ok)
    \/ OlderOpen
    \/ \E payload \in OlderPayloads : OlderMessage(payload)
    \/ \E resp \in OlderResponses, item \in ItemResponses, art \in ArtworkFound :
          OlderFetchSession(resp, item, art)
    \/ OlderError
    \/ OlderEnd
    \/ OlderNextConnection

OlderSpec == OlderInit /\ [][OlderNext]_vars

\* C37: a stream error of the older monitor sends the stopped marker exactly
\* when its tracker holds a session identity; an error before any session was
\* tracked, or after the session was reported stopped, sends nothing.
C37_OlderMonitorStopsOnlyTrackedSession ==
    [][OlderError =>
          IF IsSome(client.tracker.rating_key)
          THEN media_rx' = Append(media_rx, None)
          ELSE media_rx' = media_rx]_vars

-----------------------------------------------------------------------------
(* Shutdown: the run_sse_loop tasks after Quit.  Each task keeps being       *)
(* scheduled: its sleep ends, it takes the token at the top of its loop, and *)
(* select!, which picks among its ready branches at random, does not pass    *)
(* over a ready cancellation branch in every round forever.                  *)

\* the tasks there can be: the one spawned at start and one per
\* re-authentication
LoopIds == 1..(MaxAuths + 1)

QuitFairness ==
    \A i \in LoopIds :
        /\ WF_vars(i <= Len(loops) /\ LoopTop(i))
        /\ WF_vars(i <= Len(loops) /\ SleepDone(i))
        /\ SF_vars(i <= Len(loops) /\ SelectAppCancelled(i))

\* the tasks as far as their loops go: what start_sse_monitoring does before
\* it returns is left to the other specifications
QuitNext ==
    \/ \E i \in 1..Len(loops) : LoopTop(i)
    \/ \E i \in 1..Len(loops) : SelectAppCancelled(i)
    \/ \E i \in 1..Len(loops) : SelectSseCancelled(i)
    \/ \E i \in 1..Len(loops) : MonitoringReturns(i)
    \/ \E i \in 1..Len(loops) : SleepDone(i)
    \/ Authenticate
    \/ Quit

QuitSpec == SupInit /\ [][QuitNext]_vars /\ QuitFairness

\* every run_sse_loop spawned so far has left its loop
AllExited == \A i \in 1..Len(loops) : loops[i].pc = "done"

\* C38: Quit cancels the application token, for good, and from every state
\* with the token cancelled, wherever the run_sse_loop tasks stand then,
\* inside start_sse_monitoring or in their reconnect sleep, all of them
\* leave their loops in the end.
C38_QuitEndsEveryLoop ==
    /\ [][Quit => app_cancel_token']_vars
    /\ [][app_cancel_token => app_cancel_token']_vars
    /\ app_cancel_token ~> AllExited

\* after Quit both tasks, the one spawned at start and the one spawned by a
\* re-authentication, have left their loops; neither had seen its own token
\* cancelled, the first having taken the new one after a reconnect sleep
C38_Witness ==
    /\ app_cancel_token
    /\ Len(loops) = 2
    /\ loops[1].pc = "done"
    /\ loops[2].pc = "done"
    /\ loops[1].current_sse_cancel \notin cancelled
    /\ loops[2].current_sse_cancel \notin cancelled

-----------------------------------------------------------------------------
(* discord.rs: DiscordClient.  discord.ipc is the list of the calls made on  *)
(* the DiscordIpcClient, each with its outcome; the methods are called in    *)
(* any order.                                                                *)

MaxIpc == 5             \* calls on the IPC client in one run

Ipc(call, ok) == [call |-> call, ok |-> ok]

\* DiscordClient::disconnect
disconnect(d) ==
    IF d.connected
    THEN [connected |-> FALSE, ipc |-> Append(d.ipc, Ipc("close", TRUE))]
    ELSE d

\* DiscordClient::is_connected
is_connected(d) == d.connected

\* DiscordClient::connect; ok = client.connect() succeeds
connect(d, ok) ==
    LET d1 == IF is_connected(d) THEN disconnect(d) ELSE d
    IN [connected |-> IF ok THEN TRUE ELSE d1.connected,
        ipc |-> Append(d1.ipc, Ipc("connect", ok))]

update_mut_flag_kept_on_failure(d, ok) ==
    IF ~d.connected THEN d
    ELSE [d EXCEPT !.ipc = Append(@, Ipc("set_activity", ok))]

\* DiscordClient::update; ok = client.set_activity(..) succeeds
update(d, ok) ==
    IF ~d.connected THEN d
    ELSE LET d1 == [d EXCEPT !.ipc = Append(@, Ipc("set_activity", ok))]
         IN IF ok THEN d1 ELSE disconnect(d1)

\* DiscordClient::clear; the outcome of client.clear_activity() is dropped
Discord_clear(d, ok) ==
    IF d.connected
    THEN [d EXCEPT !.ipc = Append(@, Ipc("clear_activity", ok))]
    ELSE d

DiscordFrame ==
    UNCHANGED <<now, ticks, cache, lastEnrich, monitorVars, supervisorVars,
                clientVars, lockVars>>

DiscordConnect(ok) ==
    /\ Len(discord.ipc) < MaxIpc
    /\ discord' = connect(discord, ok)
    /\ DiscordFrame

DiscordDisconnect ==
    /\ Len(discord.ipc) < MaxIpc
    /\ discord' = disconnect(discord)
    /\ DiscordFrame

DiscordUpdate(ok) ==
    /\ Len(discord.ipc) < MaxIpc
    /\ discord' = update(discord, ok)
    /\ DiscordFrame

DiscordClear(ok) ==
    /\ Len(discord.ipc) < MaxIpc
    /\ discord' = Discord_clear(discord, ok)
    /\ DiscordFrame

DiscordInit ==
    /\ now = 0
    /\ ticks = 0
    /\ cache = EmptyCache
    /\ lastEnrich = None
    /\ NoDiscord
    /\ NoMonitor
    /\ NoSupervisor
    /\ NoClient
    /\ NoLocks

DiscordNext ==
    \/ \E ok \in BOOLEAN : DiscordConnect(ok)
    \/ DiscordDisconnect
    \/ \E ok \in BOOLEAN : DiscordUpdate(ok)
    \/ \E ok \in BOOLEAN : DiscordClear(ok)

DiscordSpec == DiscordInit /\ [][DiscordNext]_vars

\* the calls a step has added to the list
NewIpc == SubSeq(discord'.ipc, Len(discord.ipc) + 1, Len(discord'.ipc))

ActivityCalls == {"set_activity", "clear_activity"}

\* C39: set_activity and clear_activity are called only while the connected
\* flag is true; the flag turns true only in a step whose last call is a
\* successful connect; disconnect leaves it false, and so does an update
\* whose set_activity fails; and while it is false update does nothing at
\* all, until a connect succeeds.
C39_ActivityCallsOnlyWhileConnected ==
    /\ [][\A k \in 1..Len(NewIpc) :
             NewIpc[k].call \in ActivityCalls => discord.connected]_vars
    /\ [][(~discord.connected /\ discord'.connected)
             => /\ NewIpc # <<>>
                /\ NewIpc[Len(NewIpc)] = Ipc("connect", TRUE)]_vars
    /\ [][DiscordDisconnect => ~discord'.connected]_vars
    /\ [][(discord.connected /\ DiscordUpdate(FALSE))
             => /\ ~discord'.connected
                /\ NewIpc = <<Ipc("set_activity", FALSE), Ipc("close", TRUE)>>]_vars
    /\ [][\A ok \in BOOLEAN :
             (~discord.connected /\ (DiscordUpdate(ok) \/ DiscordClear(ok)))
             => discord' = discord]_vars

\* a connect succeeded, the set_activity of an update failed and closed the
\* connection, and the flag is false
C39_Witness ==
    /\ ~discord.connected
    /\ discord.ipc = <<Ipc("connect", TRUE), Ipc("set_activity", FALSE),
                       Ipc("close", TRUE)>>

=============================================================================
